---- MODULE Spec2Model ----
(***************************************************************************)
(* Noise-covariance estimation of mne/cov.py as state machines.            *)
(*                                                                         *)
(*   SpecCov : the Covariance object and the operations that build or      *)
(*             mutate it (construction, prepare_noise_cov, as_diag, +, +=, *)
(*             regularize).                                                *)
(*   SpecCC  : one call of compute_covariance, from the validation of its  *)
(*             arguments to the value it returns.                          *)
(*                                                                         *)
(* Floating-point entries are modelled as exact rationals <<n, d>>; a zero *)
(* denominator stands for the non-finite results of a float division by    *)
(* zero (<<1, 0>> is inf, <<0, 0>> is nan).                                *)
(***************************************************************************)
EXTENDS Integers, Sequences, FiniteSets, TLC

VARIABLES a, b, ret, last, nops,
          pc, args, scalings, method, method_params, rank, was_auto,
          work, fit_i, estimators, cv_runs, out, covs, result, error,
          inp, res

vars == <<a, b, ret, last, nops,
          pc, args, scalings, method, method_params, rank, was_auto,
          work, fit_i, estimators, cv_runs, out, covs, result, error,
          inp, res>>

\* the arguments and the outcomes of the calls of a helper function
fnVars == <<inp, res>>

covVars == <<a, b, ret, last, nops>>

ccVars == <<pc, args, scalings, method, method_params, rank, was_auto,
            work, fit_i, estimators, cv_runs, out, covs, result, error>>

(***************************************************************************)
(* Bounds of the model.                                                    *)
(***************************************************************************)
\* largest nfree of a freshly constructed Covariance
MaxFree == 1
\* number of data-changing operations applied to the two objects
MaxOps == 2
\* longest method list passed to compute_covariance
MaxMethods == 2
\* held-out log-likelihoods are drawn from 0 .. MaxLoglik
MaxLoglik == 1
\* channels of one channel-type block
MaxChan == 3
\* calls of a helper function on the same input
MaxCalls == 2

MaxGrid == 4

None == [tag |-> "None"]

(***************************************************************************)
(* Exact rational arithmetic standing for numpy's float arithmetic.        *)
(***************************************************************************)
RECURSIVE GCD(_, _)
GCD(m, n) == IF n = 0 THEN m ELSE GCD(n, m % n)

RNorm(n, d) ==
    IF d = 0 THEN (IF n = 0 THEN <<0, 0>> ELSE <<1, 0>>)
    ELSE LET g == GCD(n, d) IN <<n \div g, d \div g>>

RInt(k) == <<k, 1>>

RIsNan(x) == x = <<0, 0>>

RIsInf(x) == x = <<1, 0>>

RAdd(x, y) ==
    IF RIsNan(x) \/ RIsNan(y) THEN <<0, 0>>
    ELSE IF RIsInf(x) \/ RIsInf(y) THEN <<1, 0>>
    ELSE RNorm(x[1] * y[2] + y[1] * x[2], x[2] * y[2])

RMul(x, y) ==
    IF RIsNan(x) \/ RIsNan(y) THEN <<0, 0>>
    ELSE IF RIsInf(x) \/ RIsInf(y)
         THEN (IF x[1] = 0 \/ y[1] = 0 THEN <<0, 0>> ELSE <<1, 0>>)
    ELSE RNorm(x[1] * y[1], x[2] * y[2])

RDiv(x, y) ==
    IF RIsNan(x) \/ RIsNan(y) THEN <<0, 0>>
    ELSE IF RIsInf(y) THEN (IF RIsInf(x) THEN <<0, 0>> ELSE <<0, 1>>)
    ELSE IF RIsInf(x) THEN <<1, 0>>
    ELSE RNorm(x[1] * y[2], x[2] * y[1])

(***************************************************************************)
(* numpy arrays of one or two dimensions: [ndim, arr].                     *)
(***************************************************************************)
Vec(v) == [ndim |-> 1, arr |-> v]

Mat(m) == [ndim |-> 2, arr |-> m]

ArrLen(x) == Len(x.arr)

\* x * k for an integer k
ArrScale(x, k) ==
    IF x.ndim = 1
    THEN Vec([i \in 1..Len(x.arr) |-> RMul(x.arr[i], RInt(k))])
    ELSE Mat([i \in 1..Len(x.arr) |->
              [j \in 1..Len(x.arr[i]) |-> RMul(x.arr[i][j], RInt(k))]])

\* x / k for an integer k
ArrDiv(x, k) ==
    IF x.ndim = 1
    THEN Vec([i \in 1..Len(x.arr) |-> RDiv(x.arr[i], RInt(k))])
    ELSE Mat([i \in 1..Len(x.arr) |->
              [j \in 1..Len(x.arr[i]) |-> RDiv(x.arr[i][j], RInt(k))]])

\* x + y with numpy broadcasting: a vector added to a matrix is added to
\* every row of it
ArrAdd(x, y) ==
    LET n == Len(x.arr) IN
    IF x.ndim = 1 /\ y.ndim = 1
    THEN Vec([i \in 1..n |-> RAdd(x.arr[i], y.arr[i])])
    ELSE IF x.ndim = 2 /\ y.ndim = 2
    THEN Mat([i \in 1..n |-> [j \in 1..n |-> RAdd(x.arr[i][j], y.arr[i][j])]])
    ELSE IF x.ndim = 2
    THEN Mat([i \in 1..n |-> [j \in 1..n |-> RAdd(x.arr[i][j], y.arr[j])]])
    ELSE Mat([i \in 1..n |-> [j \in 1..n |-> RAdd(x.arr[j], y.arr[i][j])]])

\* np.diag of a matrix (its diagonal) or of a vector (the diagonal matrix)
NpDiag(x) ==
    LET n == Len(x.arr) IN
    IF x.ndim = 2
    THEN Vec([i \in 1..n |-> x.arr[i][i]])
    ELSE Mat([i \in 1..n |-> [j \in 1..n |->
              IF i = j THEN x.arr[i] ELSE RInt(0)]])

\* x[np.ix_(idx, idx)] of a matrix, x[idx] of a vector
ArrPick(x, idx) ==
    IF x.ndim = 2
    THEN Mat([i \in 1..Len(idx) |-> [j \in 1..Len(idx) |->
              x.arr[idx[i]][idx[j]]]])
    ELSE Vec([i \in 1..Len(idx) |-> x.arr[idx[i]]])

(***************************************************************************)
(* The Covariance object (a dict) and its operations.                      *)
(***************************************************************************)
\* channel names of the measurement info, and each channel's type
InfoChNames == <<"c1", "c2">>

InfoChType == [c \in {"c1", "c2"} |-> IF c = "c1" THEN "mag" ELSE "eeg"]

\* info['bads']
InfoBads == {}

\* Covariance.__init__
Covariance(data, names, bads, projs, nfree, eig, eigvec) ==
    [data |-> data, dim |-> ArrLen(data), names |-> names, bads |-> bads,
     nfree |-> nfree, eig |-> eig, eigvec |-> eigvec,
     diag |-> (data.ndim = 1), projs |-> projs]

\* _check_covs_algebra: "ok", or the exception it raises.  Both projection
\* lists are read from cov1.
CheckCovsAlgebra(cov1, cov2) ==
    IF cov1.names # cov2.names THEN "ValueError"
    ELSE LET projs1 == cov1.projs
             projs2 == cov1.projs
         IN  IF projs1 # projs2 THEN "ValueError" ELSE "ok"

\* the weighted average both operators compute, with numpy broadcasting
WeightedData(d1, n1, d2, n2) ==
    ArrDiv(ArrAdd(ArrScale(d1, n1), ArrScale(d2, n2)), n1 + n2)

\* Covariance.__add__: [raised, val]
CovAdd(self, cov) ==
    IF CheckCovsAlgebra(self, cov) # "ok"
    THEN [raised |-> CheckCovsAlgebra(self, cov), val |-> None]
    ELSE LET this_cov == cov
         IN  [raised |-> "no",
              val |-> [this_cov EXCEPT
                  !.data = WeightedData(this_cov.data, this_cov.nfree,
                                        self.data, self.nfree),
                  !.nfree = this_cov.nfree + self.nfree,
                  !.bads = this_cov.bads \cup self.bads]]

\* Covariance.__iadd__: [raised, val], val being self after the call.  The
\* slice assignment self['data'][:] = ... keeps the shape of self['data'].
CovIAdd(self, cov) ==
    IF CheckCovsAlgebra(self, cov) # "ok"
    THEN [raised |-> CheckCovsAlgebra(self, cov), val |-> self]
    ELSE LET new == WeightedData(self.data, self.nfree, cov.data, cov.nfree)
         IN  IF new.ndim # self.data.ndim
             THEN [raised |-> "ValueError", val |-> self]
             ELSE [raised |-> "no",
                   val |-> [self EXCEPT !.data = new,
                                        !.nfree = self.nfree + cov.nfree,
                                        !.bads = self.bads \cup cov.bads]]

\* Covariance.as_diag
CovAsDiag(self) ==
    IF self.diag THEN self
    ELSE [self EXCEPT !.diag = TRUE, !.data = NpDiag(self.data),
                      !.eig = None, !.eigvec = None]

\* list.index
RECURSIVE IndexFrom(_, _, _)
IndexFrom(s, x, i) ==
    IF i > Len(s) THEN 0 ELSE IF s[i] = x THEN i ELSE IndexFrom(s, x, i + 1)

Index(s, x) == IndexFrom(s, x, 1)

\* _smart_eigh: the eigenvalues and eigenvectors of C, identified by the
\* matrix they decompose
SmartEigh(C) ==
    [eig |-> [tag |-> "eig", of |-> C.arr],
     eigvec |-> [tag |-> "eigvec", of |-> C.arr]]

\* prepare_noise_cov
PrepareNoiseCov(noise_cov, ch_names) ==
    LET noise_cov_idx == [i \in 1..Len(ch_names) |->
                              Index(noise_cov.names, ch_names[i])]
        C == IF ~noise_cov.diag
             THEN ArrPick(noise_cov.data, noise_cov_idx)
             ELSE NpDiag(ArrPick(noise_cov.data, noise_cov_idx))
        e == SmartEigh(C)
    IN  Covariance(C, ch_names, noise_cov.bads, noise_cov.projs,
                   noise_cov.nfree, e.eig, e.eigvec)

RECURSIVE RSum(_)
RSum(s) == IF s = <<>> THEN RInt(0) ELSE RAdd(s[1], RSum(Tail(s)))

\* the positions of s, from i on and in order, whose element is in keep
RECURSIVE SelectIdx(_, _, _)
SelectIdx(s, keep, i) ==
    IF i > Len(s) THEN <<>>
    ELSE (IF s[i] \in keep THEN <<i>> ELSE <<>>) \o SelectIdx(s, keep, i + 1)

\* a copy that hands back the object it was given
CovCopyAliases(self) == [ref |-> "arg", val |-> self]

\* Covariance.copy: deepcopy(self), a new object with the same content
CovCopy(self) == [ref |-> "new", val |-> self]

\* regularize with rank='full' and proj=False (the call _RegCovariance.fit
\* makes): regs maps a channel type to its factor.  [raised, val, arg,
\* fresh]: val is the object returned, arg the caller's object after the
\* call, fresh whether the two are distinct objects.  Every write goes to
\* the local cov.
Regularize(cov0, regs) ==
    LET copied == CovCopy(cov0)
        cov == copied.val
        exclude == InfoBads \cup cov.bads
        Good(c) == c \notin exclude /\ Index(InfoChNames, c) > 0
        names == {cov.names[k] : k \in 1..Len(cov.names)}
        idx == SelectIdx(cov.names, {c \in names : Good(c)}, 1)
        OfType(t) == SelectIdx(cov.names,
                               {c \in names : Good(c) /\ InfoChType[c] = t},
                               1)
        Sigma(t) == RDiv(RSum([k \in 1..Len(OfType(t)) |->
                                 cov.data.arr[OfType(t)[k]][OfType(t)[k]]]),
                         RInt(Len(OfType(t))))
        NewEntry(i, j) ==
            IF i = j /\ Good(cov.names[i])
                 /\ regs[InfoChType[cov.names[i]]] # RInt(0)
            THEN RAdd(cov.data.arr[i][i],
                      RMul(regs[InfoChType[cov.names[i]]],
                           Sigma(InfoChType[cov.names[i]])))
            ELSE cov.data.arr[i][j]
        written == [cov EXCEPT !.data =
                       Mat([i \in 1..cov.dim |-> [j \in 1..cov.dim |->
                            NewEntry(i, j)]])]
    IN  IF cov.data.ndim = 1
        THEN [raised |-> "IndexError", val |-> None, arg |-> cov0,
              fresh |-> copied.ref = "new"]
        ELSE [raised |-> "no", val |-> written,
              arg |-> IF copied.ref = "arg" THEN written ELSE cov0,
              fresh |-> copied.ref = "new"]

(***************************************************************************)
(* compute_covariance: validation of the arguments.                        *)
(***************************************************************************)
Q(n) == RInt(n)

\* accepted_methods of _check_method_params
AcceptedMethods ==
    {"auto", "empirical", "diagonal_fixed", "ledoit_wolf", "oas", "shrunk",
     "pca", "factor_analysis", "shrinkage"}

\* the table _method_params of _check_method_params before the caller's
\* method_params are merged into it
DefaultMethodParams ==
    LET plain == [store_precision |-> FALSE, assume_centered |-> TRUE]
        types == [t \in {"grad", "mag", "eeg", "seeg", "ecog", "hbo", "hbr"}
                    |-> <<1, 10>>]
    IN  [m \in {"empirical", "diagonal_fixed", "ledoit_wolf", "oas",
                "shrinkage", "shrunk", "pca", "factor_analysis"} |->
           CASE m = "diagonal_fixed" -> types @@ plain
             [] m = "shrinkage" -> [shrinkage |-> <<1, 10>>] @@ plain
             [] m = "shrunk" -> [shrinkage |-> "logspace(-4, 0, 30)"] @@ plain
             [] m \in {"pca", "factor_analysis"} ->
                    [iter_n_components |-> None]
             [] OTHER -> plain]

\* 0 <= x <= 1 for a rational x
InUnitInterval(x) == x[2] > 0 /\ 0 <= x[1] /\ x[1] <= x[2]

\* the first steps of _check_method_params (the method_params dict):
\* [raised, table]
MergeMethodParams(mp) ==
    IF mp.kind # "dict" THEN [raised |-> "no", table |-> DefaultMethodParams]
    ELSE IF \E key \in DOMAIN mp.val : key \notin DOMAIN DefaultMethodParams
    THEN [raised |-> "ValueError", table |-> DefaultMethodParams]
    ELSE LET table == [m \in DOMAIN DefaultMethodParams |->
                         IF m \in DOMAIN mp.val
                         THEN mp.val[m] @@ DefaultMethodParams[m]
                         ELSE DefaultMethodParams[m]]
             shrinkage ==
                 IF "shrinkage" \in DOMAIN mp.val
                      /\ "shrinkage" \in DOMAIN mp.val["shrinkage"]
                 THEN mp.val["shrinkage"]["shrinkage"]
                 ELSE <<1, 10>>
         IN  IF ~InUnitInterval(shrinkage)
             THEN [raised |-> "ValueError", table |-> table]
             ELSE [raised |-> "no", table |-> table]

\* s without its element at position i (list.pop(i))
RemoveAt(s, i) == [k \in 1..(Len(s) - 1) |-> IF k < i THEN s[k] ELSE s[k + 1]]

Elems(s) == {s[i] : i \in 1..Len(s)}

IsFull(rk) == rk.kind = "str" /\ rk.val = "full"

\* a _check_rank that pops 'factor_analysis' from whatever list holds it
CheckRankPopsAlways(rk, methods, wasAuto) ==
    IF rk.kind = "str" /\ rk.val # "full"
    THEN [raised |-> "ValueError", rank |-> rk, methods |-> methods]
    ELSE IF IsFull(rk)
    THEN [raised |-> "no", rank |-> rk, methods |-> methods]
    ELSE LET popped == IF Index(methods, "factor_analysis") > 0
                       THEN RemoveAt(methods,
                                     Index(methods, "factor_analysis"))
                       ELSE methods
         IN  IF \E i \in 1..Len(popped) :
                    popped[i] \in {"pca", "factor_analysis"}
             THEN [raised |-> "ValueError", rank |-> rk, methods |-> popped]
             ELSE IF rk.kind \notin {"none", "int", "dict"}
             THEN [raised |-> "ValueError", rank |-> rk, methods |-> popped]
             ELSE [raised |-> "no", rank |-> rk, methods |-> popped]

\* a _check_rank without the loop that refuses the low-rank methods
CheckRankNoLowRankGuard(rk, methods, wasAuto) ==
    IF rk.kind = "str" /\ rk.val # "full"
    THEN [raised |-> "ValueError", rank |-> rk, methods |-> methods]
    ELSE IF IsFull(rk)
    THEN [raised |-> "no", rank |-> rk, methods |-> methods]
    ELSE LET popped == IF wasAuto
                       THEN RemoveAt(methods,
                                     Index(methods, "factor_analysis"))
                       ELSE methods
         IN  IF rk.kind \notin {"none", "int", "dict"}
             THEN [raised |-> "ValueError", rank |-> rk, methods |-> popped]
             ELSE [raised |-> "no", rank |-> rk, methods |-> popped]

\* _check_rank: [raised, rank, methods].  A rank is [kind |-> "str", val],
\* [kind |-> "none"], [kind |-> "int", n], [kind |-> "bool", flag],
\* [kind |-> "dict", d] with d a set of <<key, value>>, or a value of another
\* type such as [kind |-> "float", x]
CheckRank(rk, methods, wasAuto) ==
    IF rk.kind = "str" /\ rk.val # "full"
    THEN [raised |-> "ValueError", rank |-> rk, methods |-> methods]
    ELSE IF IsFull(rk)
    THEN [raised |-> "no", rank |-> rk, methods |-> methods]
    ELSE LET popped == IF wasAuto
                       THEN RemoveAt(methods,
                                     Index(methods, "factor_analysis"))
                       ELSE methods
             rank1 == IF rk.kind = "none"
                      THEN [kind |-> "dict", d |-> {}]
                      ELSE rk
             rank2 == IF rank1.kind = "int"
                      THEN [kind |-> "dict", d |-> {<<"meg", rank1.n>>}]
                      ELSE IF rank1.kind = "bool"
                      THEN [kind |-> "dict",
                            d |-> {<<"meg", IF rank1.flag THEN 1 ELSE 0>>}]
                      ELSE rank1
         IN  IF \E i \in 1..Len(popped) :
                    popped[i] \in {"pca", "factor_analysis"}
             THEN [raised |-> "ValueError", rank |-> rk, methods |-> popped]
             ELSE IF rank2.kind # "dict"
                     \/ (rk.kind = "bool" /\ ~rk.flag)
             THEN [raised |-> "ValueError", rank |-> rank2,
                   methods |-> popped]
             ELSE [raised |-> "no", rank |-> rank2, methods |-> popped]

\* the expansion of method='auto'
AutoMethods == <<"shrunk", "diagonal_fixed", "empirical", "factor_analysis">>

\* _check_method_params: [raised, method, table, rank, was_auto]
CheckMethodParams(m, mp, keep_sample_mean, allow_auto, rk) ==
    LET merged == MergeMethodParams(mp)
        wasAuto == m.kind = "str" /\ m.name = "auto" /\ allow_auto
        listed == IF m.kind = "none" THEN <<"empirical">>
                  ELSE IF wasAuto THEN AutoMethods
                  ELSE IF m.kind = "list" THEN m.names
                  ELSE <<m.name>>
        checked == CheckRank(rk, listed, wasAuto)
        Fail == [raised |-> "ValueError", method |-> listed,
                 table |-> merged.table, rank |-> rk, was_auto |-> wasAuto]
    IN  IF merged.raised # "no" THEN Fail
        ELSE IF \E k \in Elems(listed) : k \notin AcceptedMethods THEN Fail
        ELSE IF checked.raised # "no"
        THEN [Fail EXCEPT !.method = checked.methods]
        ELSE IF ~keep_sample_mean
                /\ (Len(checked.methods) # 1
                    \/ "empirical" \notin Elems(checked.methods))
        THEN [Fail EXCEPT !.method = checked.methods]
        ELSE IF ~keep_sample_mean
                /\ \E k \in DOMAIN merged.table :
                      /\ "assume_centered" \in DOMAIN merged.table[k]
                      /\ merged.table[k]["assume_centered"] = FALSE
        THEN [Fail EXCEPT !.method = checked.methods]
        ELSE [raised |-> "no", method |-> checked.methods,
              table |-> merged.table, rank |-> checked.rank,
              was_auto |-> wasAuto]

\* _check_scalings_user: [raised, scalings]
CheckScalingsUser(sc) ==
    IF sc.kind = "dict"
    THEN IF \E k \in DOMAIN sc.val : k \notin {"mag", "grad", "eeg"}
         THEN [raised |-> "ValueError", scalings |-> sc]
         ELSE [raised |-> "no",
               scalings |-> [kind |-> "dict",
                   val |-> sc.val @@ [mag |-> "1e15", grad |-> "1e13",
                                      eeg |-> "1e6"]]]
    ELSE IF sc.kind # "none" /\ sc.kind # "ndarray"
    THEN [raised |-> "TypeError", scalings |-> sc]
    ELSE IF sc.kind = "none"
    THEN [raised |-> "no",
          scalings |-> [kind |-> "dict",
              val |-> [mag |-> "1e15", grad |-> "1e13", eeg |-> "1e6"]]]
    ELSE [raised |-> "no", scalings |-> sc]

(***************************************************************************)
(* compute_covariance: estimation, model selection and the returned value. *)
(***************************************************************************)
\* dict item assignment d[name] = val on an insertion-ordered dict, kept as
\* a sequence of [name, val]: a present key keeps its position
DictSet(d, name, val) ==
    IF \E i \in 1..Len(d) : d[i].name = name
    THEN [i \in 1..Len(d) |->
            IF d[i].name = name THEN [name |-> name, val |-> val] ELSE d[i]]
    ELSE Append(d, [name |-> name, val |-> val])

\* one more element x in a list sorted by loglik, high to low: x goes
\* behind the elements that do not compare lower than it
\* a sort that is not stable: x goes in front of the elements equal to it
RECURSIVE InsertBeforeEqual(_, _)
InsertBeforeEqual(sorted, x) ==
    IF sorted = <<>> THEN <<x>>
    ELSE IF sorted[1].loglik <= x.loglik
    THEN <<x>> \o sorted
    ELSE <<sorted[1]>> \o InsertBeforeEqual(Tail(sorted), x)

RECURSIVE InsertByLoglik(_, _)
InsertByLoglik(sorted, x) ==
    IF sorted = <<>> THEN <<x>>
    ELSE IF sorted[1].loglik < x.loglik
    THEN <<x>> \o sorted
    ELSE <<sorted[1]>> \o InsertByLoglik(Tail(sorted), x)

RECURSIVE SortFrom(_, _)
SortFrom(sorted, rest) ==
    IF rest = <<>> THEN sorted
    ELSE SortFrom(InsertByLoglik(sorted, rest[1]), Tail(rest))

\* covs.sort(key=lambda c: c['loglik'], reverse=True): a stable sort
SortCovs(cs) == IF Len(cs) <= 1 THEN cs ELSE SortFrom(<<>>, cs)

\* what one pass of the loop over `method` in _compute_covariance_auto does
\* with method_: [raised, table, inner_cv]
FitMethod(method_, table, rk) ==
    IF method_ \notin DOMAIN table
    THEN [raised |-> "KeyError", table |-> table, inner_cv |-> 0]
    ELSE IF method_ \in {"empirical", "diagonal_fixed", "ledoit_wolf", "oas",
                         "shrinkage"}
    THEN [raised |-> "no", table |-> table, inner_cv |-> 0]
    ELSE IF method_ = "shrunk"
    THEN IF "shrinkage" \notin DOMAIN table[method_]
         THEN [raised |-> "KeyError", table |-> table, inner_cv |-> 0]
         ELSE [raised |-> "no",
               table |-> [table EXCEPT ![method_] =
                   [k \in (DOMAIN table[method_]) \ {"shrinkage"} |->
                        table[method_][k]]],
               inner_cv |-> 1]
    ELSE IF method_ \in {"pca", "factor_analysis"}
    THEN IF ~IsFull(rk)
         THEN [raised |-> "AssertionError", table |-> table, inner_cv |-> 0]
         ELSE [raised |-> "no", table |-> table, inner_cv |-> 1]
    ELSE [raised |-> "ValueError", table |-> table, inner_cv |-> 0]

\* a scoring loop that cross-validates a lone estimator too
SelectsByCVAlways(methods) == Len(methods) > 0

\* whether the loop that fills `out` runs _cross_val
SelectsByCV(methods) == Len(methods) > 1

\* the value compute_covariance returns for the sorted covs:
\* [raised, val]
PickResult(cs, return_estimators) ==
    IF Len(cs) > 1
    THEN IF return_estimators
         THEN [raised |-> "no", val |-> [kind |-> "list", covs |-> cs]]
         ELSE [raised |-> "no", val |-> [kind |-> "single", cov |-> cs[1]]]
    ELSE IF Len(cs) = 0
    THEN [raised |-> "IndexError", val |-> None]
    ELSE [raised |-> "no", val |-> [kind |-> "single", cov |-> cs[1]]]

(***************************************************************************)
(* SpecCC: one call of compute_covariance.                                 *)
(***************************************************************************)
SeqsUpTo(S, n) == UNION {[1..k -> S] : k \in 0..n}

\* the method names a caller passes
InputNames ==
    {"empirical", "shrunk", "pca", "factor_analysis", "auto", "bogus"}

MethodInputs ==
    {[kind |-> "none"]}
    \cup {[kind |-> "str", name |-> n] : n \in InputNames}
    \cup {[kind |-> "list", names |-> ns] :
              ns \in SeqsUpTo(InputNames, MaxMethods)}

MethodParamsInputs ==
    {[kind |-> "none"],
     [kind |-> "dict", val |-> [shrinkage |-> [shrinkage |-> <<1, 2>>]]],
     [kind |-> "dict", val |-> [shrinkage |-> [shrinkage |-> <<2, 1>>]]],
     [kind |-> "dict", val |-> [bogus |-> <<>>]]}

RankInputs ==
    {[kind |-> "str", val |-> "full"],
     [kind |-> "str", val |-> "bogus"],
     [kind |-> "none"],
     [kind |-> "int", n |-> 1],
     [kind |-> "int", n |-> -1],
     [kind |-> "dict", d |-> {<<"eeg", 1>>}],
     [kind |-> "float", x |-> <<3, 2>>]}

ScalingsInputs ==
    {[kind |-> "none"],
     [kind |-> "dict", val |-> [mag |-> "1e12"]],
     [kind |-> "dict", val |-> [bogus |-> "1"]],
     [kind |-> "str", name |-> "norm"]}

NoWork == [read |-> FALSE, scaled |-> FALSE, reduced |-> FALSE, fitted |-> 0]

NoCV == [inner |-> 0, select |-> 0]

covIdle ==
    /\ a = None /\ b = None /\ ret = None /\ last = None /\ nops = 0

fnIdle == inp = None /\ res = None

InitCC ==
    /\ pc = "check_scalings"
    /\ args \in [method : MethodInputs,
                 method_params : MethodParamsInputs,
                 rank : RankInputs,
                 scalings : ScalingsInputs,
                 keep_sample_mean : BOOLEAN]
    /\ scalings = args.scalings
    /\ method = args.method
    /\ method_params = args.method_params
    /\ rank = args.rank
    /\ was_auto = FALSE
    /\ work = NoWork
    /\ fit_i = 0
    /\ estimators = <<>>
    /\ cv_runs = NoCV
    /\ out = <<>>
    /\ covs = <<>>
    /\ result = None
    /\ error = None
    /\ covIdle
    /\ fnIdle

Raise(exc) ==
    /\ pc' = "raised"
    /\ error' = [exc |-> exc, at |-> pc]

\* scalings = _check_scalings_user(scalings)
CheckScalings ==
    /\ pc = "check_scalings"
    /\ LET r == CheckScalingsUser(scalings)
       IN  IF r.raised # "no"
           THEN Raise(r.raised) /\ UNCHANGED scalings
           ELSE /\ scalings' = r.scalings
                /\ pc' = "check_method"
                /\ UNCHANGED error
    /\ UNCHANGED <<args, method, method_params, rank, was_auto, work, fit_i,
                   estimators, cv_runs, out, covs, result>>
    /\ UNCHANGED <<covVars, fnVars>>

\* method, _method_params, rank = _check_method_params(...)
CheckMethod ==
    /\ pc = "check_method"
    /\ LET r == CheckMethodParams(method, method_params,
                                  args.keep_sample_mean, TRUE, rank)
       IN  IF r.raised # "no"
           THEN Raise(r.raised)
                /\ UNCHANGED <<method, method_params, rank, was_auto>>
           ELSE /\ method' = r.method
                /\ method_params' = r.table
                /\ rank' = r.rank
                /\ was_auto' = r.was_auto
                /\ pc' = "read"
                /\ UNCHANGED error
    /\ UNCHANGED <<args, scalings, work, fit_i, estimators, cv_runs, out,
                   covs, result>>
    /\ UNCHANGED <<covVars, fnVars>>

\* the epochs' data are read and stacked
ReadData ==
    /\ pc = "read"
    /\ work' = [work EXCEPT !.read = TRUE]
    /\ pc' = "scale"
    /\ UNCHANGED <<args, scalings, method, method_params, rank, was_auto,
                   fit_i, estimators, cv_runs, out, covs, result, error>>
    /\ UNCHANGED <<covVars, fnVars>>

\* _compute_covariance_auto: the data are scaled and, unless rank is
\* 'full', reduced to the retained eigen-subspace
ScaleAndReduce ==
    /\ pc = "scale"
    /\ work' = [work EXCEPT !.scaled = TRUE, !.reduced = ~IsFull(rank)]
    /\ fit_i' = 1
    /\ pc' = "fit"
    /\ UNCHANGED <<args, scalings, method, method_params, rank, was_auto,
                   estimators, cv_runs, out, covs, result, error>>
    /\ UNCHANGED <<covVars, fnVars>>

\* one pass of the loop over `method`: the estimator of method[fit_i] is
\* fitted
Fit ==
    /\ pc = "fit"
    /\ fit_i <= Len(method)
    /\ LET r == FitMethod(method[fit_i], method_params, rank)
       IN  IF r.raised # "no"
           THEN Raise(r.raised)
                /\ UNCHANGED <<method_params, work, fit_i, estimators,
                               cv_runs>>
           ELSE /\ method_params' = r.table
                /\ work' = [work EXCEPT !.fitted = @ + 1]
                /\ estimators' = Append(estimators, method[fit_i])
                /\ cv_runs' = [cv_runs EXCEPT !.inner = @ + r.inner_cv]
                /\ fit_i' = fit_i + 1
                /\ UNCHANGED <<pc, error>>
    /\ UNCHANGED <<args, scalings, method, rank, was_auto, out, covs,
                   result>>
    /\ UNCHANGED <<covVars, fnVars>>

\* the loop over `method` is over
FitDone ==
    /\ pc = "fit"
    /\ fit_i > Len(method)
    /\ fit_i' = 1
    /\ pc' = "score"
    /\ UNCHANGED <<args, scalings, method, method_params, rank, was_auto,
                   work, estimators, cv_runs, out, covs, result, error>>
    /\ UNCHANGED <<covVars, fnVars>>

\* one pass of the loop over estimator_cov_info: the held-out
\* log-likelihood of estimator fit_i, or None, goes into out
Score ==
    /\ pc = "score"
    /\ fit_i <= Len(estimators)
    /\ \E ll \in 0..MaxLoglik :
         LET cv == SelectsByCV(method)
             loglik == IF cv THEN ll ELSE None
         IN  /\ (~cv => ll = 0)
             /\ out' = DictSet(out, method[fit_i], loglik)
             /\ cv_runs' = [cv_runs EXCEPT
                               !.select = @ + (IF cv THEN 1 ELSE 0)]
    /\ fit_i' = fit_i + 1
    /\ UNCHANGED <<pc, args, scalings, method, method_params, rank, was_auto,
                   work, estimators, covs, result, error>>
    /\ UNCHANGED <<covVars, fnVars>>

\* compute_covariance builds one Covariance per entry of out, sorts them
\* and returns
Finish(return_estimators) ==
    /\ pc = "score"
    /\ fit_i > Len(estimators)
    /\ LET built == [i \in 1..Len(out) |->
                        [method |-> out[i].name, loglik |-> out[i].val]]
           sorted == SortCovs(built)
           r == PickResult(sorted, return_estimators)
       IN  /\ covs' = sorted
           /\ IF r.raised # "no"
              THEN Raise(r.raised) /\ UNCHANGED result
              ELSE /\ result' = [return_estimators |-> return_estimators,
                                  ret |-> r.val]
                   /\ pc' = "done"
                   /\ UNCHANGED error
    /\ UNCHANGED <<args, scalings, method, method_params, rank, was_auto,
                   work, fit_i, estimators, cv_runs, out>>
    /\ UNCHANGED <<covVars, fnVars>>

NextCC ==
    \/ CheckScalings
    \/ CheckMethod
    \/ ReadData
    \/ ScaleAndReduce
    \/ Fit
    \/ FitDone
    \/ Score
    \/ \E re \in BOOLEAN : Finish(re)

SpecCC == InitCC /\ [][NextCC]_vars

(***************************************************************************)
(* SpecCov: two Covariance objects a and b held by a caller, and the value *)
(* ret of the last call.                                                   *)
(***************************************************************************)
FullA == Mat(<< <<Q(2), Q(1)>>, <<Q(1), Q(1)>> >>)

FullB == Mat(<< <<Q(1), Q(0)>>, <<Q(0), Q(3)>> >>)

DiagA == Vec(<<Q(2), Q(1)>>)

DiagB == Vec(<<Q(1), Q(3)>>)

\* the covariances a caller starts from, as compute_covariance (2-D data) or
\* make_ad_hoc_cov (1-D data) construct them: no eig, no eigvec
InitCovsA ==
    {Covariance(d, InfoChNames, {"c1"}, <<>>, n, None, None) :
        d \in {FullA, DiagA}, n \in 0..MaxFree}

InitCovsB ==
    {Covariance(d, InfoChNames, bads, projs, n, None, None) :
        d \in {FullB, DiagB}, n \in 0..MaxFree,
        bads \in {{}, {"c2"}}, projs \in {<<>>, <<"ssp">>}}

\* the ch_names a caller passes to prepare_noise_cov
PrepareNames == {<<"c1", "c2">>, <<"c2", "c1">>}

\* the regularization factors a caller passes to regularize
RegFactors == {Q(0), <<1, 10>>}

NoRet == [kind |-> "none"]

RetCov(c) == [kind |-> "cov", val |-> c]

RetRaise(e) == [kind |-> "raise", exc |-> e]

RetOf(r) == IF r.raised = "no" THEN RetCov(r.val) ELSE RetRaise(r.raised)

ccIdle ==
    /\ pc = "idle" /\ args = None /\ scalings = None /\ method = None
    /\ method_params = None /\ rank = None /\ was_auto = FALSE
    /\ work = None /\ fit_i = 0 /\ estimators = <<>> /\ cv_runs = None
    /\ out = <<>> /\ covs = <<>> /\ result = None /\ error = None

InitCov ==
    /\ a \in InitCovsA
    /\ b \in InitCovsB
    /\ ret = NoRet
    /\ last = [op |-> "init"]
    /\ nops = 0
    /\ ccIdle
    /\ fnIdle

\* ret = a + b
Add ==
    /\ nops < MaxOps
    /\ LET r == CovAdd(a, b)
       IN  /\ ret' = RetOf(r)
           /\ last' = [op |-> "add", self |-> a, cov |-> b,
                       raised |-> r.raised, val |-> r.val]
    /\ nops' = nops + 1
    /\ UNCHANGED <<a, b>>
    /\ UNCHANGED <<ccVars, fnVars>>

\* a += b
IAdd ==
    /\ nops < MaxOps
    /\ LET r == CovIAdd(a, b)
       IN  /\ a' = r.val
           /\ ret' = IF r.raised = "no" THEN NoRet ELSE RetRaise(r.raised)
           /\ last' = [op |-> "iadd", self |-> a, cov |-> b,
                       raised |-> r.raised, val |-> r.val]
    /\ nops' = nops + 1
    /\ UNCHANGED b
    /\ UNCHANGED <<ccVars, fnVars>>

\* a.as_diag()
AsDiag ==
    /\ nops < MaxOps
    /\ a' = CovAsDiag(a)
    /\ ret' = NoRet
    /\ last' = [op |-> "as_diag", self |-> a]
    /\ nops' = nops + 1
    /\ UNCHANGED b
    /\ UNCHANGED <<ccVars, fnVars>>

\* ret = prepare_noise_cov(a, info, ch_names)
Prepare(ch_names) ==
    /\ nops < MaxOps
    /\ ret' = RetCov(PrepareNoiseCov(a, ch_names))
    /\ last' = [op |-> "prepare", self |-> a]
    /\ nops' = nops + 1
    /\ UNCHANGED <<a, b>>
    /\ UNCHANGED <<ccVars, fnVars>>

\* ret = regularize(a, info, mag=mag, eeg=eeg, proj=False, rank='full')
DoRegularize(mag, eeg) ==
    /\ nops < MaxOps
    /\ LET regs == [t \in {"mag", "eeg"} |-> IF t = "mag" THEN mag ELSE eeg]
           r == Regularize(a, regs)
       IN  /\ a' = r.arg
           /\ ret' = RetOf(r)
           /\ last' = [op |-> "regularize", self |-> a, regs |-> regs,
                       raised |-> r.raised, val |-> r.val,
                       fresh |-> r.fresh]
    /\ nops' = nops + 1
    /\ UNCHANGED b
    /\ UNCHANGED <<ccVars, fnVars>>

\* whiten_evoked(evoked, a, diag=diag): the covariance the caller holds
\* after the call; the whitened Evoked it returns is no Covariance
WhitenEvoked(diag) ==
    /\ nops < MaxOps
    /\ a' = IF diag THEN CovAsDiag(a) ELSE a
    /\ ret' = NoRet
    /\ last' = [op |-> "whiten_evoked", self |-> a, diag |-> diag]
    /\ nops' = nops + 1
    /\ UNCHANGED b
    /\ UNCHANGED <<ccVars, fnVars>>

\* the caller binds the returned covariance to a (a = ...)
Take ==
    /\ ret.kind = "cov"
    /\ a' = ret.val
    /\ ret' = NoRet
    /\ last' = [op |-> "take"]
    /\ UNCHANGED <<b, nops>>
    /\ UNCHANGED <<ccVars, fnVars>>

\* the caller exchanges the two objects (a, b = b, a)
Swap ==
    /\ a' = b
    /\ b' = a
    /\ ret' = NoRet
    /\ last' = [op |-> "swap"]
    /\ UNCHANGED nops
    /\ UNCHANGED <<ccVars, fnVars>>

NextCov ==
    \/ Add
    \/ IAdd
    \/ AsDiag
    \/ \E ch \in PrepareNames : Prepare(ch)
    \/ \E mag \in RegFactors, eeg \in RegFactors : DoRegularize(mag, eeg)
    \/ \E diag \in BOOLEAN : WhitenEvoked(diag)
    \/ Take
    \/ Swap

SpecCov == InitCov /\ [][NextCov]_vars

\* the covariance objects of a state
LiveCovs == {a, b} \cup (IF ret.kind = "cov" THEN {ret.val} ELSE {})

\* a covariance's data as a matrix: 1-D data are the diagonal of one
AsMatrix(d) == IF d.ndim = 1 THEN NpDiag(d).arr ELSE d.arr

\* C1: for two Covariance objects with identical channel names and
\* n1 + n2 > 0, both a + b and a += b yield nfree = n1 + n2,
\* data = (n1*C1 + n2*C2)/(n1 + n2) and bads = the union of both bads.
C1_MergeWeightedAverage ==
    (/\ last.op \in {"add", "iadd"}
     /\ last.self.names = last.cov.names
     /\ last.self.nfree + last.cov.nfree > 0)
    => /\ last.raised = "no"
       /\ last.val.nfree = last.self.nfree + last.cov.nfree
       /\ last.val.bads = last.self.bads \cup last.cov.bads
       /\ \A i \in 1..last.self.dim, j \in 1..last.self.dim :
            RMul(AsMatrix(last.val.data)[i][j],
                 Q(last.self.nfree + last.cov.nfree))
            = RAdd(RMul(Q(last.self.nfree), AsMatrix(last.self.data)[i][j]),
                   RMul(Q(last.cov.nfree), AsMatrix(last.cov.data)[i][j]))

\* the same for two operands of one representation (both 2-D or both 1-D)
MergeSameShape ==
    (/\ last.op \in {"add", "iadd"}
     /\ last.self.data.ndim = last.cov.data.ndim)
    => C1_MergeWeightedAverage

\* the cached decomposition of c is absent, or is one of c's current data
EigValid(c) ==
    \/ c.eig = None /\ c.eigvec = None
    \/ /\ c.eig # None /\ c.eigvec # None
       /\ c.data.ndim = 2
       /\ c.eig = SmartEigh(c.data).eig
       /\ c.eigvec = SmartEigh(c.data).eigvec

\* C2: in every Covariance reachable from a constructed or prepared one by
\* as_diag, +, += and regularize, eig and eigvec are both None or are a
\* decomposition of the object's current data.
C2_EigCacheValid == \A c \in LiveCovs : EigValid(c)

\* C20: regularize never modifies the covariance it is given: whether it
\* returns or raises, the caller's object (data, bads, nfree, names,
\* projectors, diag flag, cached decomposition) is what it was before the
\* call, and a returned covariance is a distinct object.
C20_RegularizeLeavesArgument ==
    last.op = "regularize"
        => /\ a = last.self
           /\ last.raised = "no" => last.fresh

\* a call that returned a covariance whose data differ from the argument's
C20_Witness ==
    /\ last.op = "regularize"
    /\ last.raised = "no"
    /\ last.val.data # last.self.data
    /\ a = last.self

(***************************************************************************)
(* Properties of SpecCC.                                                   *)
(***************************************************************************)
\* the call went through both validations
Validated == pc \notin {"check_scalings", "check_method", "raised"}

RaisedAt(stage) == pc = "raised" /\ error.at = stage

ListGiven == args.method.kind = "list"

AutoGiven == args.method.kind = "str" /\ args.method.name = "auto"

CovPairs == {<<covs[i].method, covs[i].loglik>> : i \in 1..Len(covs)}

OutPairs == {<<out[i].name, out[i].val>> : i \in 1..Len(out)}

\* C3: when two or more methods run, the covariances are the scored
\* estimators ordered by log-likelihood from high to low, equal
\* log-likelihoods in the order the methods were requested, and without
\* return_estimators the first of them (a maximum) is returned.
C3_SortedByLoglik ==
    (pc = "done" /\ Len(method) >= 2)
    => /\ CovPairs = OutPairs
       /\ Len(covs) = Len(out)
       /\ \A i, j \in 1..Len(covs) :
            i < j => \/ covs[i].loglik > covs[j].loglik
                     \/ /\ covs[i].loglik = covs[j].loglik
                        /\ Index(method, covs[i].method)
                             < Index(method, covs[j].method)
       /\ ~result.return_estimators
            => /\ result.ret = [kind |-> "single", cov |-> covs[1]]
               /\ \A i \in 1..Len(out) : out[i].val <= covs[1].loglik

\* two methods tied at the same log-likelihood and a third value returned
C3_Witness ==
    /\ pc = "done"
    /\ Len(covs) >= 2
    /\ covs[1].loglik = covs[2].loglik
    /\ ~result.return_estimators

\* C4: a list of k >= 2 accepted method names with return_estimators=True
\* returns exactly k covariances, one per list entry, each tagged with the
\* name of its method.
C4_OnePerListEntry ==
    (/\ pc = "done"
     /\ ListGiven
     /\ Len(args.method.names) >= 2
     /\ result.return_estimators)
    => /\ result.ret.kind = "list"
       /\ Len(result.ret.covs) = Len(args.method.names)
       /\ \A i \in 1..Len(args.method.names) :
            \E j \in 1..Len(result.ret.covs) :
                result.ret.covs[j].method = args.method.names[i]

\* the same for lists of distinct names, which the code does satisfy
DistinctListReturnsAll ==
    (/\ ListGiven
     /\ \A i, j \in 1..Len(args.method.names) :
            args.method.names[i] = args.method.names[j] => i = j)
    => C4_OnePerListEntry

\* C5: with exactly one method requested no cross-validation is run at all
\* and no log-likelihood is attached.
C5_SingleMethodNoCV ==
    (Validated /\ Len(method) = 1)
    => /\ cv_runs = NoCV
       /\ \A i \in 1..Len(out) : out[i].val = None

\* C5 (amended): with exactly one method requested the model-selection
\* cross-validation is not run and no log-likelihood is attached; the
\* estimator's own cross-validated search runs exactly for 'shrunk', 'pca'
\* and 'factor_analysis'.
C5_SingleMethodNoSelection ==
    (Validated /\ Len(method) = 1)
    => /\ cv_runs.select = 0
       /\ \A i \in 1..Len(out) : out[i].val = None
       /\ \A i \in 1..Len(covs) : covs[i].loglik = None
       /\ pc = "done" => result.ret.cov.loglik = None
       /\ \A i \in 1..Len(estimators) :
            (cv_runs.inner > 0)
              <=> estimators[i] \in {"shrunk", "pca", "factor_analysis"}

\* a lone 'shrunk' returned after its grid search
C5_Witness ==
    /\ pc = "done"
    /\ method = <<"shrunk">>
    /\ cv_runs.inner = 1
    /\ result.ret.cov.loglik = None

\* C6: with method 'auto' or a list of any length and return_estimators
\* True, a list of covariances sorted from best to worst is returned.
C6_ListWheneverAsked ==
    (pc = "done" /\ (AutoGiven \/ ListGiven) /\ result.return_estimators)
    => /\ result.ret.kind = "list"
       /\ \A i, j \in 1..Len(result.ret.covs) :
            i < j => result.ret.covs[i].loglik >= result.ret.covs[j].loglik

\* C7: 'auto' expands to shrunk, diagonal_fixed, empirical,
\* factor_analysis; with a rank other than 'full' factor_analysis is
\* dropped and the other three keep their order; a list given by the caller
\* is the list the estimators run on, unchanged.
C7_AutoExpansion ==
    /\ (Validated /\ AutoGiven)
         => method = IF IsFull(args.rank)
                     THEN <<"shrunk", "diagonal_fixed", "empirical",
                            "factor_analysis">>
                     ELSE <<"shrunk", "diagonal_fixed", "empirical">>
    /\ (Validated /\ ListGiven) => method = args.method.names

\* 'auto' validated with a rank that is not 'full'
C7_Witness ==
    /\ pc = "read"
    /\ AutoGiven
    /\ ~IsFull(args.rank)
    /\ Len(method) = 3

LowRankListed ==
    /\ ListGiven
    /\ \E i \in 1..Len(args.method.names) :
         args.method.names[i] \in {"pca", "factor_analysis"}

\* C8: a list naming 'pca' or 'factor_analysis' together with a rank of
\* None, an int or a dict makes _check_method_params raise ValueError, and
\* the assertions rank == 'full' of the fitting loop never fail.
C8_LowRankNeedsFullRank ==
    /\ (/\ LowRankListed
        /\ args.rank.kind \in {"none", "int", "dict"}
        /\ pc \notin {"check_scalings", "check_method"}
        /\ ~RaisedAt("check_scalings"))
         => /\ RaisedAt("check_method")
            /\ error.exc = "ValueError"
            /\ work = NoWork
    /\ pc = "raised" => error.exc # "AssertionError"

\* 'pca' in an otherwise valid call refused for a rank given as a dict
C8_Witness ==
    /\ RaisedAt("check_method")
    /\ LowRankListed
    /\ args.rank.kind = "dict"
    /\ args.method_params.kind = "none"
    /\ \A i \in 1..Len(args.method.names) :
         args.method.names[i] \in {"pca", "empirical"}

\* the method names the documentation of compute_covariance lists as valid
ValidMethods ==
    {"empirical", "diagonal_fixed", "shrunk", "oas", "ledoit_wolf",
     "factor_analysis", "shrinkage", "pca"}

InvalidMethodName ==
    \/ /\ args.method.kind = "str"
       /\ args.method.name \notin ValidMethods \cup {"auto"}
    \/ /\ ListGiven
       /\ \E i \in 1..Len(args.method.names) :
            args.method.names[i] \notin ValidMethods

UnknownParamsKey ==
    /\ args.method_params.kind = "dict"
    /\ \E k \in DOMAIN args.method_params.val : k \notin ValidMethods

ShrinkageOutOfRange ==
    /\ args.method_params.kind = "dict"
    /\ "shrinkage" \in DOMAIN args.method_params.val
    /\ "shrinkage" \in DOMAIN args.method_params.val["shrinkage"]
    /\ LET x == args.method_params.val["shrinkage"]["shrinkage"]
       IN  ~(x[2] > 0 /\ 0 <= x[1] /\ x[1] <= x[2])

InvalidRank ==
    \/ args.rank.kind = "str" /\ args.rank.val # "full"
    \/ args.rank.kind \notin {"str", "none", "int", "dict"}

UnknownScalingsKey ==
    /\ args.scalings.kind = "dict"
    /\ \E k \in DOMAIN args.scalings.val : k \notin {"mag", "grad", "eeg"}

LowRankWithoutFullRank == LowRankListed /\ ~IsFull(args.rank)

ConfigurationError ==
    \/ InvalidMethodName
    \/ UnknownParamsKey
    \/ ShrinkageOutOfRange
    \/ InvalidRank
    \/ UnknownScalingsKey
    \/ LowRankWithoutFullRank

\* C9: a call with a configuration error (invalid method name, unknown
\* method_params key, shrinkage outside [0, 1], invalid rank, unknown
\* scalings key, low-rank method with a rank that is not 'full') raises
\* before any data is read, scaled, reduced or fitted.
C9_ConfigErrorsBeforeData ==
    ConfigurationError => work = NoWork

\* what the validation itself raises, it raises before any work
ValidationErrorsBeforeData ==
    (pc = "raised" /\ error.exc \in {"ValueError", "TypeError"})
    => /\ work = NoWork
       /\ error.at \in {"check_scalings", "check_method"}

\* the methods a call requests
Requested ==
    IF args.method.kind = "none" THEN {"empirical"}
    ELSE IF AutoGiven THEN Elems(AutoMethods)
    ELSE IF ListGiven THEN Elems(args.method.names)
    ELSE {args.method.name}

\* C10: a method_params key that names none of the requested methods is
\* refused with ValueError.
C10_ParamsKeysMatchMethods ==
    (/\ args.method.kind # "none"
     /\ args.method_params.kind = "dict"
     /\ \E k \in DOMAIN args.method_params.val : k \notin Requested
     /\ pc \notin {"check_scalings", "check_method"}
     /\ ~RaisedAt("check_scalings"))
    => RaisedAt("check_method") /\ error.exc = "ValueError"

\* a rank that is None, 'full', a non-negative integer or a mapping to
\* non-negative integers
RankWellFormed(rk) ==
    \/ rk.kind = "none"
    \/ rk.kind = "str" /\ rk.val = "full"
    \/ rk.kind = "int" /\ rk.n >= 0
    \/ rk.kind = "dict" /\ \A kv \in rk.d : kv[2] >= 0

\* C11: _check_rank accepts a rank only if it is None, 'full', a
\* non-negative integer or a mapping to non-negative integers; every other
\* rank (negative, another string, another type) raises ValueError.
C11_OnlyWellFormedRanks ==
    (/\ ~RankWellFormed(args.rank)
     /\ pc \notin {"check_scalings", "check_method"}
     /\ ~RaisedAt("check_scalings"))
    => RaisedAt("check_method") /\ error.exc = "ValueError"

\* what _check_rank does refuse: strings other than 'full' and values that
\* are neither None, an integer nor a dict
RankTypeChecked ==
    (/\ \/ args.rank.kind = "str" /\ args.rank.val # "full"
        \/ args.rank.kind \notin {"str", "none", "int", "dict"}
     /\ pc \notin {"check_scalings", "check_method"}
     /\ ~RaisedAt("check_scalings"))
    => RaisedAt("check_method") /\ error.exc = "ValueError"

(***************************************************************************)
(* SpecEig: _get_ch_whitener run on one channel-type block for several     *)
(* requested ranks.  The block is identified by its eigenvalues, which     *)
(* linalg.eigh returns in ascending order.                                 *)
(***************************************************************************)
\* the stop index, as a count of leading elements, of the Python slice
\* x[:stop] of a sequence of n elements
SliceStop(n, stop) ==
    IF stop < 0
    THEN (IF stop + n < 0 THEN 0 ELSE stop + n)
    ELSE (IF stop > n THEN n ELSE stop)

\* _get_ch_whitener(A, pca, ch_type, rank), A given by its ascending
\* eigenvalues; the rows of eigvec are named by the index of their
\* eigenvalue
GetChWhitener(eigA, pca, rk) ==
    LET n == Len(eigA)
        cut == SliceStop(n, 0 - rk)
    IN  [eig |-> [i \in 1..n |-> IF i <= cut THEN 0 ELSE eigA[i]],
         mask |-> [i \in 1..n |-> ~(i <= cut)],
         eigvec |-> IF pca THEN [i \in 1..cut |-> i] ELSE [i \in 1..n |-> i]]

Ascending(e) == \A i, j \in 1..Len(e) : i < j => e[i] <= e[j]

\* the eigenvalues a block can have
EigValues == {-1, 0, 1, 2}

Blocks == {e \in SeqsUpTo(EigValues, MaxChan) : Len(e) >= 1 /\ Ascending(e)}

InitEig ==
    /\ inp \in [eig : Blocks]
    /\ res = {}
    /\ covIdle
    /\ ccIdle

\* e, ev, m = _get_ch_whitener(this_C, pca, ch_type, this_rank)
CallGetChWhitener(pca, rk) ==
    /\ Cardinality(res) < MaxCalls
    /\ res' = res \cup {[rank |-> rk, pca |-> pca,
                         out |-> GetChWhitener(inp.eig, pca, rk)]}
    /\ UNCHANGED <<inp, covVars, ccVars>>

NextEig ==
    \E pca \in BOOLEAN, rk \in -1..(Len(inp.eig) + 1) :
        CallGetChWhitener(pca, rk)

SpecEig == InitEig /\ [][NextEig]_vars

CountTrue(m) == Cardinality({i \in 1..Len(m) : m[i]})

\* C12: for a block of n channels and a requested rank r with 0 <= r <= n
\* the returned eigenvalues are ascending, exactly the n - r smallest are
\* forced to zero, and the mask has exactly r True entries.
C12_ExactlyRankRetained ==
    \A c \in res :
        LET n == Len(inp.eig)
        IN  (0 <= c.rank /\ c.rank <= n)
            => /\ Ascending(c.out.eig)
               /\ \A i \in 1..n :
                    c.out.eig[i] = IF i <= n - c.rank THEN 0 ELSE inp.eig[i]
               /\ CountTrue(c.out.mask) = c.rank

\* the same for ranks from 1 to n on a block without negative eigenvalues
PositiveRankRetained ==
    \A c \in res :
        LET n == Len(inp.eig)
        IN  (1 <= c.rank /\ c.rank <= n /\ inp.eig[1] >= 0)
            => /\ Ascending(c.out.eig)
               /\ \A i \in 1..n :
                    c.out.eig[i] = IF i <= n - c.rank THEN 0 ELSE inp.eig[i]
               /\ CountTrue(c.out.mask) = c.rank

\* C13: for two requested ranks 0 <= k1 < k2 <= n the number of retained
\* dimensions for k1 is not greater than for k2.
C13_RankMonotone ==
    \A c1, c2 \in res :
        (0 <= c1.rank /\ c1.rank < c2.rank /\ c2.rank <= Len(inp.eig))
        => CountTrue(c1.out.mask) <= CountTrue(c2.out.mask)

\* the same for ranks from 1 on
PositiveRankMonotone ==
    \A c1, c2 \in res :
        (1 <= c1.rank /\ c1.rank < c2.rank /\ c2.rank <= Len(inp.eig))
        => CountTrue(c1.out.mask) <= CountTrue(c2.out.mask)

(***************************************************************************)
(* SpecWhiten: prepare_noise_cov, _get_whitener and compute_whitener on a  *)
(* positive-definite covariance of two channels.  Matrices are sequences   *)
(* of rows of exact rationals.                                             *)
(***************************************************************************)
\* np.dot of two matrices
Dot(A, B) ==
    CHOOSE M \in {[i \in 1..Len(x) |-> [j \in 1..Len(y[1]) |->
                     RSum([k \in 1..Len(y) |-> RMul(x[i][k], y[k][j])])]] :
                  x \in {A}, y \in {B}} : TRUE

\* A.T of a matrix with nr rows and nc columns
TransposeOf(A, nr, nc) == [j \in 1..nc |-> [i \in 1..nr |-> A[i][j]]]

\* the square matrix with d on its diagonal
DiagOf(d) ==
    [i \in 1..Len(d) |-> [j \in 1..Len(d) |-> IF i = j THEN d[i] ELSE Q(0)]]

\* np.sqrt of a rational whose numerator and denominator are squares
RSqrt(x) ==
    <<CHOOSE k \in 0..x[1] : k * k = x[1], CHOOSE k \in 0..x[2] : k * k = x[2]>>

\* the eigenvalues, all squares, and the orthonormal eigenvectors (as rows)
\* of the blocks the model decomposes
EigSquares == {Q(1), Q(4), Q(9)}

Rotations ==
    {<< <<Q(1), Q(0)>>, <<Q(0), Q(1)>> >>,
     << <<<<3, 5>>, <<4, 5>>>>, <<<<-4, 5>>, <<3, 5>>>> >>}

\* the matrix with eigenvalues lam and eigenvectors the rows of vec
Recompose(lam, vec) == Dot(TransposeOf(vec, Len(vec), Len(vec)),
                           Dot(DiagOf(lam), vec))

\* linalg.eigh(A) followed by eigvec = eigvec.T: ascending eigenvalues and
\* the eigenvectors as rows
Eigh(A) ==
    IF Len(A) = 1
    THEN [eig |-> <<A[1][1]>>, eigvec |-> << <<Q(1)>> >>]
    ELSE CHOOSE d \in [eig : [1..2 -> EigSquares], eigvec : Rotations] :
             /\ d.eig[1][1] <= d.eig[2][1]
             /\ Recompose(d.eig, d.eigvec) = A

\* _smart_eigh(C, info, rank, ...) without projectors: one
\* eigen-decomposition per channel type, written into eig[picks] and
\* eigvec[np.ix_(picks, picks)]; types[i] is the type of channel i as
\* _picks_by_type(info, meg_combined=True) names it and rk maps a type to
\* its rank
SmartEighBlocks(C, types, rk) ==
    LET n == Len(C)
        Picks(t) == SelectIdx(types, {t}, 1)
        Block(t) == [i \in 1..Len(Picks(t)) |-> [j \in 1..Len(Picks(t)) |->
                        C[Picks(t)[i]][Picks(t)[j]]]]
        seen == {types[i] : i \in 1..n}
        Kept(dec, t) == GetChWhitener(dec[t].eig, FALSE, rk[t]).mask
        Pos(i) == Index(Picks(types[i]), i)
    IN  CHOOSE e \in
            {[eig |-> [i \in 1..n |->
                         IF Kept(dec, types[i])[Pos(i)]
                         THEN dec[types[i]].eig[Pos(i)] ELSE Q(0)],
              eigvec |-> [i \in 1..n |-> [j \in 1..n |->
                         IF types[i] = types[j]
                         THEN dec[types[i]].eigvec[Pos(i)][Pos(j)]
                         ELSE Q(0)]],
              mask |-> [i \in 1..n |-> Kept(dec, types[i])[Pos(i)]]] :
             dec \in {[t \in seen |-> Eigh(Block(t))]}} : TRUE

\* _get_whitener on the prepared covariance with decomposition e:
\* [whitener, colorer, nzero, n_nzero]
GetWhitener(e, pca) ==
    LET n == Len(e.eig)
        nzero == [i \in 1..n |-> e.eig[i][1] > 0 /\ e.eig[i][2] > 0]
        eig == [i \in 1..n |-> IF nzero[i] THEN e.eig[i] ELSE Q(0)]
        w == [i \in 1..n |->
                IF nzero[i] THEN RDiv(Q(1), RSqrt(eig[i])) ELSE Q(0)]
        whitener == [i \in 1..n |-> [j \in 1..n |->
                        RMul(w[i], e.eigvec[i][j])]]
        colorer == [i \in 1..n |-> [j \in 1..n |->
                        RMul(RSqrt(eig[j]), e.eigvec[j][i])]]
        keep == SelectIdx(nzero, {TRUE}, 1)
    IN  [whitener |-> IF pca
                      THEN [k \in 1..Len(keep) |-> whitener[keep[k]]]
                      ELSE whitener,
         colorer |-> IF pca
                     THEN [i \in 1..n |-> [k \in 1..Len(keep) |->
                              colorer[i][keep[k]]]]
                     ELSE colorer,
         nzero |-> nzero,
         n_nzero |-> Len(keep)]

\* the positive-definite covariances of two channels of one type, and of
\* two channels of different types
OneTypeCovs ==
    {Recompose(lam, vec) :
        lam \in {l \in [1..2 -> EigSquares] : l[1][1] <= l[2][1]},
        vec \in Rotations}

TwoTypeCovs ==
    {<< <<x, c>>, <<c, y>> >> :
        x \in {Q(1), Q(4)}, y \in {Q(1), Q(4)}, c \in {Q(0), Q(1)}}
    \ {<< <<Q(1), Q(1)>>, <<Q(1), Q(1)>> >>}

WhitenInputs ==
    {[C |-> C, types |-> <<"eeg", "eeg">>, rank |-> [eeg |-> r]] :
        C \in OneTypeCovs, r \in 0..2}
    \cup {[C |-> C, types |-> <<"meg", "eeg">>,
           rank |-> [meg |-> r1, eeg |-> r2]] :
        C \in TwoTypeCovs, r1 \in 0..1, r2 \in 0..1}

InitWhiten ==
    /\ inp \in WhitenInputs
    /\ res = [stage |-> "start"]
    /\ covIdle
    /\ ccIdle

\* noise_cov = prepare_noise_cov(...) then the body of _get_whitener
CallGetWhitener(pca) ==
    /\ res.stage = "start"
    /\ LET e == SmartEighBlocks(inp.C, inp.types, inp.rank)
           g == GetWhitener(e, pca)
       IN  res' = [stage |-> "whitener", pca |-> pca, eig |-> e.eig,
                   eigvec |-> e.eigvec, W |-> g.whitener,
                   colorer |-> g.colorer, nzero |-> g.nzero,
                   n_nzero |-> g.n_nzero]
    /\ UNCHANGED <<inp, covVars, ccVars>>

\* compute_whitener: W = np.dot(noise_cov['eigvec'].T, W)
BackProject ==
    /\ res.stage = "whitener"
    /\ ~res.pca
    /\ res' = [res EXCEPT
                 !.stage = "back_projected",
                 !.W = Dot(TransposeOf(res.eigvec, 2, 2), res.W)]
    /\ UNCHANGED <<inp, covVars, ccVars>>

NextWhiten ==
    \/ \E pca \in BOOLEAN : CallGetWhitener(pca)
    \/ BackProject

SpecWhiten == InitWhiten /\ [][NextWhiten]_vars

\* W C W^T of the whitener held in res
WCWt == Dot(res.W, Dot(inp.C, TransposeOf(res.W, Len(res.W), 2)))

\* M v for a vector v
Apply(M, v) ==
    [i \in 1..Len(M) |-> RSum([k \in 1..Len(v) |-> RMul(M[i][k], v[k])])]

ZeroVec == <<Q(0), Q(0)>>

\* M is the identity on the retained eigenvectors and zero on the
\* discarded ones
ProjectsOnRetained(M) ==
    \A i \in 1..2 :
        Apply(M, res.eigvec[i]) = IF res.nzero[i] THEN res.eigvec[i]
                                  ELSE ZeroVec

WhitenedAndColored ==
    /\ res.stage = "whitener"
         => /\ WCWt = IF res.pca
                      THEN DiagOf([k \in 1..res.n_nzero |-> Q(1)])
                      ELSE DiagOf([i \in 1..2 |->
                                     IF res.nzero[i] THEN Q(1) ELSE Q(0)])
            /\ ProjectsOnRetained(Dot(res.colorer, res.W))
            /\ \A i \in 1..Len(res.W), j \in 1..2 :
                 /\ res.W[i][j][2] # 0
                 /\ (~res.pca /\ ~res.nzero[i]) => res.W[i][j] = Q(0)
    /\ res.stage = "back_projected" => ProjectsOnRetained(WCWt)

\* C14: for a positive-definite C the whitener W of _get_whitener gives
\* W C W^T = identity on the retained subspace, the colorer applied after W
\* reproduces the retained vectors and sends the discarded ones to zero,
\* and eigenvalues <= 0 give all-zero whitener rows, never a division by
\* zero.
C14_WhitenerDecorrelates == WhitenedAndColored

\* the same for channels that are all of one type
OneTypeWhitened == (inp.types[1] = inp.types[2]) => WhitenedAndColored

(***************************************************************************)
(* SpecScale: the scaling helpers applied and undone on a signal array     *)
(* (channels x samples) or on a covariance of two channels.                *)
(***************************************************************************)
\* rescale_dict_ of _check_scaling_inputs; 8, 4 and 2 stand for the factors
\* 1e15, 1e13 and 1e6
RescaleDict == [mag |-> Q(8), grad |-> Q(4), eeg |-> Q(2)]

\* _compute_row_norms(data): the Euclidean norm of each row, 1 for a zero
\* row
ComputeRowNorms(data) ==
    [i \in 1..Len(data) |->
        LET sq == RSum([j \in 1..Len(data[i]) |->
                          RMul(data[i][j], data[i][j])])
        IN  IF sq = Q(0) THEN Q(1) ELSE RSqrt(sq)]

\* _check_scaling_inputs: [raised, s] with s None, [kind "dict", val] or
\* [kind "ndarray", arr]
CheckScalingInputs(data, sc) ==
    IF sc.kind = "str" /\ sc.name = "norm"
    THEN [raised |-> "no",
          s |-> [kind |-> "ndarray",
                 arr |-> [i \in 1..Len(data) |->
                            RDiv(Q(1), ComputeRowNorms(data)[i])]]]
    ELSE IF sc.kind = "dict"
    THEN [raised |-> "no",
          s |-> [kind |-> "dict",
                 val |-> [k \in DOMAIN RescaleDict \cup DOMAIN sc.val |->
                            IF k \in DOMAIN sc.val THEN sc.val[k]
                            ELSE RescaleDict[k]]]]
    ELSE IF sc.kind = "ndarray"
    THEN [raised |-> "no", s |-> sc]
    ELSE IF sc.kind = "none"
    THEN [raised |-> "no", s |-> sc]
    ELSE [raised |-> "NotImplementedError", s |-> sc]

\* _invert_scalings
InvertScalings(s) ==
    IF s.kind = "dict"
    THEN [kind |-> "dict", val |-> [k \in DOMAIN s.val |-> RDiv(Q(1), s.val[k])]]
    ELSE IF s.kind = "ndarray"
    THEN [kind |-> "ndarray",
          arr |-> [i \in 1..Len(s.arr) |-> RDiv(Q(1), s.arr[i])]]
    ELSE s

\* data with row i multiplied by f[i]
ScaleRows(data, f) ==
    [i \in 1..Len(data) |-> [j \in 1..Len(data[i]) |-> RMul(data[i][j], f[i])]]

\* _apply_scaling_array(data, picks_list, scalings), types[i] being the
\* channel type of row i: [raised, data]
ApplyScalingArray(data, types, sc) ==
    LET c == CheckScalingInputs(data, sc)
    IN  IF c.raised # "no" THEN [raised |-> c.raised, data |-> data]
        ELSE IF c.s.kind = "dict"
        THEN [raised |-> "no",
              data |-> ScaleRows(data, [i \in 1..Len(data) |->
                          IF types[i] \in DOMAIN c.s.val
                          THEN c.s.val[types[i]] ELSE Q(1)])]
        ELSE IF c.s.kind = "ndarray"
        THEN [raised |-> "no", data |-> ScaleRows(data, c.s.arr)]
        ELSE [raised |-> "TypeError", data |-> data]

\* _undo_scaling_array
UndoScalingArray(data, types, sc) ==
    LET c == CheckScalingInputs(data, sc)
    IN  IF c.raised # "no" THEN [raised |-> c.raised, data |-> data]
        ELSE ApplyScalingArray(data, types, InvertScalings(c.s))

\* _apply_scaling_cov: [raised, data]
ApplyScalingCov(data, types, sc) ==
    LET c == CheckScalingInputs(data, sc)
        Scaled(scales) ==
            [i \in 1..Len(data) |-> [j \in 1..Len(data) |->
                RMul(data[i][j], RMul(scales[i], scales[j]))]]
    IN  IF c.raised # "no" THEN [raised |-> c.raised, data |-> data]
        ELSE IF c.s.kind = "dict"
        THEN IF \E i \in 1..Len(data) : types[i] \notin DOMAIN c.s.val
             THEN [raised |-> "KeyError", data |-> data]
             ELSE [raised |-> "no",
                   data |-> Scaled([i \in 1..Len(data) |->
                                       c.s.val[types[i]]])]
        ELSE IF c.s.kind = "ndarray"
        THEN IF Len(c.s.arr) # Len(data)
             THEN [raised |-> "ValueError", data |-> data]
             ELSE [raised |-> "no", data |-> Scaled(c.s.arr)]
        ELSE [raised |-> "no", data |-> data]

\* _undo_scaling_cov
UndoScalingCov(data, types, sc) ==
    LET c == CheckScalingInputs(data, sc)
    IN  IF c.raised # "no" THEN [raised |-> c.raised, data |-> data]
        ELSE ApplyScalingCov(data, types, InvertScalings(c.s))

\* res.rank is -1 until a rank has been estimated
\* signal arrays of two channels, with fewer or as many samples as channels
SignalArrays ==
    {<< <<x>>, <<y>> >> : x \in {Q(1), Q(2), Q(-3)}, y \in {Q(1), Q(2)}}
    \cup {<< <<Q(3), Q(4)>>, <<Q(0), Q(2)>> >>}

\* covariances of two channels
CovArrays ==
    {<< <<Q(4), Q(3)>>, <<Q(3), Q(4)>> >>,
     << <<Q(1), Q(0)>>, <<Q(0), Q(1)>> >>,
     << <<Q(2), Q(0)>>, <<Q(0), Q(5)>> >>}

\* the scalings values the helpers document: per-type dict, 'norm',
\* explicit ndarray, None
ScaleValues ==
    {[kind |-> "dict", val |-> [eeg |-> Q(3)]],
     [kind |-> "dict", val |-> [mag |-> Q(5), eeg |-> <<1, 2>>]],
     [kind |-> "str", name |-> "norm"],
     [kind |-> "ndarray", arr |-> <<Q(2), <<1, 4>>>>],
     [kind |-> "none"]}

InitScale ==
    /\ inp \in [of : {"signals"}, data : SignalArrays,
                types : {<<"mag", "eeg">>}, scalings : ScaleValues]
          \cup [of : {"cov"}, data : CovArrays,
                types : {<<"mag", "eeg">>}, scalings : ScaleValues]
    /\ res = [stage |-> "start", data |-> inp.data, raised |-> "no",
              warned |-> FALSE, rank |-> -1]
    /\ covIdle
    /\ ccIdle

\* _apply_scaling_array / _apply_scaling_cov on the caller's array
ApplyScaling ==
    /\ res.stage = "start"
    /\ LET r == IF inp.of = "signals"
                THEN ApplyScalingArray(res.data, inp.types, inp.scalings)
                ELSE ApplyScalingCov(res.data, inp.types, inp.scalings)
       IN  res' = [res EXCEPT
                     !.stage = IF r.raised = "no" THEN "scaled" ELSE "raised",
                     !.data = r.data, !.raised = r.raised]
    /\ UNCHANGED <<inp, covVars, ccVars>>

\* the body of _estimate_rank_meeg_signals / _estimate_rank_meeg_cov between
\* scaling and unscaling: the ValueError built when there are fewer samples
\* than channels is neither raised nor passed to warn, and estimate_rank
\* returns some rank
EstimateRank(rk) ==
    /\ res.stage = "scaled"
    /\ res' = [res EXCEPT !.stage = "estimated", !.rank = rk,
                          !.warned = FALSE]
    /\ UNCHANGED <<inp, covVars, ccVars>>

\* _undo_scaling_array / _undo_scaling_cov with the same scalings argument
UndoScaling ==
    /\ res.stage \in {"scaled", "estimated"}
    /\ LET r == IF inp.of = "signals"
                THEN UndoScalingArray(res.data, inp.types, inp.scalings)
                ELSE UndoScalingCov(res.data, inp.types, inp.scalings)
       IN  res' = [res EXCEPT
                     !.stage = IF r.raised = "no" THEN "undone" ELSE "raised",
                     !.data = r.data, !.raised = r.raised]
    /\ UNCHANGED <<inp, covVars, ccVars>>

NextScale ==
    \/ ApplyScaling
    \/ \E rk \in 0..Len(inp.data) : EstimateRank(rk)
    \/ UndoScaling

SpecScale == InitScale /\ [][NextScale]_vars

\* C15: for every supported scalings value (per-type dict, 'norm', ndarray,
\* None) scaling then unscaling with the same scalings argument restores
\* the array, so the rank estimators leave their data unchanged.
C15_ScalingRoundTrip ==
    /\ res.stage # "raised"
    /\ res.stage = "undone" => res.data = inp.data

\* the same for a per-type dict or an explicit ndarray
DictAndArrayRoundTrip ==
    inp.scalings.kind \in {"dict", "ndarray"}
    => /\ res.stage # "raised"
       /\ res.stage = "undone" => res.data = inp.data

\* C17: a rank estimated on data with fewer samples than channels comes
\* with a warning, not an error, and a rank estimate is still returned.
C17_FewSamplesWarned ==
    (/\ res.stage \in {"estimated", "undone"}
     /\ res.rank >= 0
     /\ Len(inp.data[1]) < Len(inp.data))
    => res.warned /\ res.raised = "no"

(***************************************************************************)
(* SpecSamples: _check_n_samples as compute_covariance calls it before the *)
(* estimation.                                                             *)
(***************************************************************************)
\* a check that lets an empty data set through
CheckNSamplesAllowsNone(n_samples, n_chan) ==
    LET n_samples_min == (10 * (n_chan + 1)) \div 2
    IN  IF n_samples < 0
        THEN [raised |-> "ValueError", warned |-> FALSE]
        ELSE [raised |-> "no", warned |-> n_samples < n_samples_min]

\* _check_n_samples(n_samples, n_chan): [raised, warned]
CheckNSamples(n_samples, n_chan) ==
    LET n_samples_min == (10 * (n_chan + 1)) \div 2
    IN  IF n_samples <= 0
        THEN [raised |-> "ValueError", warned |-> FALSE]
        ELSE [raised |-> "no", warned |-> n_samples < n_samples_min]

InitSamples ==
    /\ inp \in [n_samples : -1..(5 * (MaxChan + 1) + 1), n_chan : 1..MaxChan]
    /\ res = [stage |-> "start", raised |-> "no", warned |-> FALSE]
    /\ covIdle
    /\ ccIdle

\* _check_n_samples(n_samples_tot, len(picks_meeg))
CallCheckNSamples ==
    /\ res.stage = "start"
    /\ LET r == CheckNSamples(inp.n_samples, inp.n_chan)
       IN  res' = [stage |-> IF r.raised = "no" THEN "checked" ELSE "raised",
                   raised |-> r.raised, warned |-> r.warned]
    /\ UNCHANGED <<inp, covVars, ccVars>>

\* cov_data = _compute_covariance_auto(...)
ComputeAfterCheck ==
    /\ res.stage = "checked"
    /\ res' = [res EXCEPT !.stage = "computed"]
    /\ UNCHANGED <<inp, covVars, ccVars>>

NextSamples == CallCheckNSamples \/ ComputeAfterCheck

SpecSamples == InitSamples /\ [][NextSamples]_vars

\* C16: _check_n_samples raises ValueError exactly when n_samples <= 0,
\* warns exactly when 0 < n_samples < 10 * (n_chan + 1) // 2, and after a
\* warning returns, so that the covariance is computed.
C16_SampleCountChecked ==
    res.stage # "start"
    => /\ (res.raised = "ValueError") <=> (inp.n_samples <= 0)
       /\ res.warned <=> /\ 0 < inp.n_samples
                         /\ 2 * inp.n_samples < 10 * (inp.n_chan + 1)
       /\ res.warned => res.stage \in {"checked", "computed"}
       /\ (res.stage = "raised") <=> (res.raised # "no")

\* a covariance computed after the warning
C16_Witness ==
    res.stage = "computed" /\ res.warned /\ inp.n_samples = 1

(***************************************************************************)
(* SpecEpochs: the consistency checks compute_covariance runs over its     *)
(* list of Epochs before any data is read.  An Epochs object is            *)
(* [dev_head_t, proj, projs, bads, ch_names].                              *)
(***************************************************************************)
Min(x, y) == IF x < y THEN x ELSE y

\* the test of the dev_head_t loop: one of the two transforms missing, or
\* both present and not close
TransMismatch(orig, t) ==
    \/ (orig = "none") # (t = "none")
    \/ (orig # "none" /\ orig # t)

\* a loop that treats 'warn' like 'raise'
DevHeadLoopWarnRaises(epochs, on_mismatch) ==
    LET orig == epochs[1].dev_head_t
        bad == {i \in 1..Len(epochs) : TransMismatch(orig, epochs[i].dev_head_t)}
    IN  IF bad # {} /\ on_mismatch \in {"raise", "warn"}
        THEN [raised |-> "ValueError", warnings |-> 0]
        ELSE [raised |-> "no", warnings |-> 0]

\* the loop over the epochs that compares dev_head_t with that of
\* epochs[0]: [raised, warnings]
DevHeadLoop(epochs, on_mismatch) ==
    LET orig == epochs[1].dev_head_t
        bad == {i \in 1..Len(epochs) : TransMismatch(orig, epochs[i].dev_head_t)}
    IN  IF bad # {} /\ on_mismatch = "raise"
        THEN [raised |-> "ValueError", warnings |-> 0]
        ELSE [raised |-> "no",
              warnings |-> IF on_mismatch = "warn" THEN Cardinality(bad)
                           ELSE 0]

\* the loop run when projs is None: [raised]
ProjsLoop(epochs) ==
    LET projs == epochs[1].projs
        Bad(i) ==
            \/ epochs[i].proj # epochs[1].proj
            \/ \E k \in 1..Min(Len(epochs[i].projs), Len(projs)) :
                   epochs[i].projs[k] # projs[k]
    IN  IF \E i \in 2..Len(epochs) : Bad(i)
        THEN [raised |-> "ValueError"]
        ELSE [raised |-> "no"]

\* the loop over epochs[1:] that compares bads and ch_names: [raised]
BadsNamesLoop(epochs) ==
    IF \E i \in 2..Len(epochs) :
           \/ epochs[i].bads # epochs[1].bads
           \/ epochs[i].ch_names # epochs[1].ch_names
    THEN [raised |-> "ValueError"]
    ELSE [raised |-> "no"]

FirstEpochs ==
    [dev_head_t : {"none", "T1"}, proj : {TRUE}, projs : {<<"p1">>},
     bads : {{}}, ch_names : {<<"c1", "c2">>}]

OtherEpochs ==
    [dev_head_t : {"none", "T1", "T2"}, proj : BOOLEAN,
     projs : {<<>>, <<"p1">>, <<"p2">>, <<"p1", "p2">>},
     bads : {{}, {"c1"}}, ch_names : {<<"c1", "c2">>, <<"c1", "c3">>}]

\* on_mismatch as a caller gives it; "42" stands for a value that is not a
\* str
OnMismatchInputs == {"raise", "warn", "ignore", "bogus", "42"}

InitEpochs ==
    /\ inp \in [epochs : {<<e1, e2>> : e1 \in FirstEpochs, e2 \in OtherEpochs},
                on_mismatch : OnMismatchInputs,
                projs_given : BOOLEAN]
    /\ res = [stage |-> "on_mismatch", raised |-> "no", at |-> "",
              warnings |-> 0]
    /\ covIdle
    /\ ccIdle

\* if not isinstance(on_mismatch, str) or on_mismatch not in [...]: raise
CheckOnMismatch ==
    /\ res.stage = "on_mismatch"
    /\ res' = IF inp.on_mismatch \notin {"raise", "warn", "ignore"}
              THEN [res EXCEPT !.stage = "raised", !.raised = "ValueError",
                               !.at = "on_mismatch"]
              ELSE [res EXCEPT !.stage = "dev_head_t"]
    /\ UNCHANGED <<inp, covVars, ccVars>>

CheckDevHead ==
    /\ res.stage = "dev_head_t"
    /\ LET r == DevHeadLoop(inp.epochs, inp.on_mismatch)
       IN  res' = IF r.raised # "no"
                  THEN [res EXCEPT !.stage = "raised", !.raised = r.raised,
                                   !.at = "dev_head_t"]
                  ELSE [res EXCEPT !.stage = "projs",
                                   !.warnings = r.warnings]
    /\ UNCHANGED <<inp, covVars, ccVars>>

CheckProjs ==
    /\ res.stage = "projs"
    /\ LET r == IF inp.projs_given THEN [raised |-> "no"]
                ELSE ProjsLoop(inp.epochs)
       IN  res' = IF r.raised # "no"
                  THEN [res EXCEPT !.stage = "raised", !.raised = r.raised,
                                   !.at = "projs"]
                  ELSE [res EXCEPT !.stage = "bads_names"]
    /\ UNCHANGED <<inp, covVars, ccVars>>

CheckBadsNames ==
    /\ res.stage = "bads_names"
    /\ LET r == BadsNamesLoop(inp.epochs)
       IN  res' = IF r.raised # "no"
                  THEN [res EXCEPT !.stage = "raised", !.raised = r.raised,
                                   !.at = "bads_names"]
                  ELSE [res EXCEPT !.stage = "compatible"]
    /\ UNCHANGED <<inp, covVars, ccVars>>

NextEpochs ==
    \/ CheckOnMismatch
    \/ CheckDevHead
    \/ CheckProjs
    \/ CheckBadsNames

SpecEpochs == InitEpochs /\ [][NextEpochs]_vars

(***************************************************************************)
(* Properties of SpecEpochs.                                               *)
(***************************************************************************)
EpochsSettled == res.stage \in {"raised", "compatible"}

OnMismatchValid == inp.on_mismatch \in {"raise", "warn", "ignore"}

TransDiffer ==
    \E i \in 1..Len(inp.epochs) :
        TransMismatch(inp.epochs[1].dev_head_t, inp.epochs[i].dev_head_t)

BadsDiffer ==
    \E i \in 2..Len(inp.epochs) : inp.epochs[i].bads # inp.epochs[1].bads

NamesDiffer ==
    \E i \in 2..Len(inp.epochs) :
        inp.epochs[i].ch_names # inp.epochs[1].ch_names

\* C18 (as stated): an on_mismatch outside 'raise', 'warn', 'ignore' raises
\* ValueError; otherwise, whenever the segments differ in channel names, in
\* bad-channel lists or in dev-head transform (and the projector check does
\* not interfere), 'raise' ends in ValueError, 'warn' warns and continues,
\* and 'ignore' continues without a warning.
C18_OnMismatchDecides ==
    EpochsSettled =>
        /\ ~OnMismatchValid => res.raised = "ValueError"
        /\ (/\ OnMismatchValid
            /\ res.at # "projs"
            /\ (TransDiffer \/ BadsDiffer \/ NamesDiffer))
           => /\ inp.on_mismatch = "raise" => res.raised = "ValueError"
              /\ inp.on_mismatch = "warn"
                     => res.stage = "compatible" /\ res.warnings > 0
              /\ inp.on_mismatch = "ignore"
                     => res.stage = "compatible" /\ res.warnings = 0

\* C18 (amended): on_mismatch decides for the dev-head transforms only:
\* an invalid value raises ValueError before anything else; with differing
\* transforms 'raise' ends in ValueError at the transform check, 'warn'
\* passes it with a warning and 'ignore' passes it silently; differing bad
\* channels or channel names, once reached, raise ValueError whatever
\* on_mismatch says.
C18_OnMismatchDecidesTransforms ==
    /\ (res.stage # "on_mismatch" /\ ~OnMismatchValid)
           => res.raised = "ValueError" /\ res.at = "on_mismatch"
    /\ (res.stage \notin {"on_mismatch", "dev_head_t"} /\ OnMismatchValid)
           => /\ (TransDiffer /\ inp.on_mismatch = "raise")
                     => res.raised = "ValueError" /\ res.at = "dev_head_t"
              /\ (TransDiffer /\ inp.on_mismatch = "warn")
                     => res.at # "dev_head_t" /\ res.warnings > 0
              /\ (TransDiffer /\ inp.on_mismatch = "ignore")
                     => res.at # "dev_head_t" /\ res.warnings = 0
              /\ ~TransDiffer => res.at # "dev_head_t" /\ res.warnings = 0
    /\ (EpochsSettled /\ OnMismatchValid
            /\ res.at \notin {"dev_head_t", "projs"}
            /\ (BadsDiffer \/ NamesDiffer))
           => res.raised = "ValueError" /\ res.at = "bads_names"

\* differing transforms under 'warn' with everything else alike: the call
\* went through all checks with a warning
C18_Witness ==
    /\ res.stage = "compatible"
    /\ inp.on_mismatch = "warn"
    /\ TransDiffer
    /\ res.warnings > 0

ProjsAgree ==
    \A i \in 2..Len(inp.epochs) :
        /\ inp.epochs[i].proj = inp.epochs[1].proj
        /\ inp.epochs[i].projs = inp.epochs[1].projs

\* C19: with projs=None the call cannot get past the projector check
\* unless every Epochs object has the same projector list as the first
\* (same number, pairwise equal) and the same proj flag.
C19_ProjsMustMatch ==
    (/\ ~inp.projs_given
     /\ (res.stage \in {"bads_names", "compatible"} \/ res.at = "bads_names"))
        => ProjsAgree

\* what the projector check does establish: equal proj flags, and
\* pairwise equal projectors over the common length
ProjsAgreeOnCommonPrefix ==
    (/\ ~inp.projs_given
     /\ (res.stage \in {"bads_names", "compatible"} \/ res.at = "bads_names"))
        => \A i \in 2..Len(inp.epochs) :
               /\ inp.epochs[i].proj = inp.epochs[1].proj
               /\ \A k \in 1..Min(Len(inp.epochs[i].projs),
                                  Len(inp.epochs[1].projs)) :
                      inp.epochs[i].projs[k] = inp.epochs[1].projs[k]

(***************************************************************************)
(* SpecReg: regularize on a covariance of three channels c1, c2, c3, for   *)
(* rank 'full' or a dict, with and without an SSP projector on c1, c2.     *)
(* Matrices are sequences of rows of exact rationals.                      *)
(***************************************************************************)
RegNames == <<"c1", "c2", "c3">>

\* the vector of the one SSP projector, over the channels c1, c2
ProjVector == <<<<3, 5>>, <<4, 5>>>>

\* the name _picks_by_type(info, meg_combined=True) gives a channel type
MegName(t) == IF t \in {"mag", "grad"} THEN "meg" ELSE t

\* picks that keep the excluded channels
PicksDictKeepsExcluded(types, exclude, meg_combined) ==
    LET shown == [i \in 1..Len(types) |->
                    IF meg_combined THEN MegName(types[i]) ELSE types[i]]
    IN  [k \in {"meg", "mag", "grad", "eeg"} |-> SelectIdx(shown, {k}, 1)]

\* picks_dict of regularize: the indices of the channels of the key ch_type
\* that are not excluded; a combined 'meg' key replaces 'mag' and 'grad'
PicksDict(types, exclude, meg_combined) ==
    LET shown == [i \in 1..Len(types) |->
                    IF RegNames[i] \in exclude THEN "excluded"
                    ELSE IF meg_combined THEN MegName(types[i])
                    ELSE types[i]]
    IN  [k \in {"meg", "mag", "grad", "eeg"} |-> SelectIdx(shown, {k}, 1)]

\* make_projector(projs, this_ch_names): the projector has its say only on
\* the block made of c1 and c2.  [P, ncomp]
MakeProjector(has_proj, idx) ==
    IF has_proj /\ idx = <<1, 2>>
    THEN [P |-> [i \in 1..2 |-> [j \in 1..2 |->
                   RAdd(IF i = j THEN Q(1) ELSE Q(0),
                        RMul(Q(-1), RMul(ProjVector[i], ProjVector[j])))]],
          ncomp |-> 1]
    ELSE [P |-> DiagOf([i \in 1..Len(idx) |-> Q(1)]), ncomp |-> 0]

\* linalg.svd(P)[0][:, :-ncomp] for the projector above, given by its
\* columns; the sign of a singular vector is the library's choice
SvdBasis(P, sign) ==
    << <<RMul(Q(sign), <<4, 5>>), RMul(Q(sign), <<-3, 5>>)>> >>

\* U.T of the loop over the channel types, as a sequence of rows
BlockBasis(this_C, ch_type, rk, proj, has_proj, idx, sign) ==
    IF rk.kind = "full"
    THEN IF proj /\ MakeProjector(has_proj, idx).ncomp > 0
         THEN SvdBasis(MakeProjector(has_proj, idx).P, sign)
         ELSE DiagOf([i \in 1..Len(idx) |-> Q(1)])
    ELSE LET t == MegName(ch_type)
             e == SmartEighBlocks(this_C, [i \in 1..Len(idx) |-> t],
                                  [k \in {t} |-> rk.d[t]])
             keep == SelectIdx(e.mask, {TRUE}, 1)
         IN  [k \in 1..Len(keep) |-> e.eigvec[keep[k]]]

\* this_C = U.T C U; the diagonal gets reg * sigma; this_C = U this_C U.T
LoadBlock(this_C, Ut, reg) ==
    LET n == Len(this_C)
        k == Len(Ut)
        U == TransposeOf(Ut, k, n)
        small == Dot(Ut, Dot(this_C, U))
        sigma == RDiv(RSum([i \in 1..k |-> small[i][i]]), Q(k))
        loaded == [i \in 1..k |-> [j \in 1..k |->
                     IF i = j THEN RAdd(small[i][j], RMul(reg, sigma))
                     ELSE small[i][j]]]
    IN  Dot(U, Dot(loaded, Ut))

\* the key of picks_dict that holds channel i, "" if none does
KeyOf(picks, i) ==
    IF \E k \in DOMAIN picks : Index(picks[k], i) > 0
    THEN CHOOSE k \in DOMAIN picks : Index(picks[k], i) > 0
    ELSE ""

\* a check that lets differing factors through
CheckCombinedFactorsNever(combined, mag, grad) == "no"

\* if len(picks_dict.get('meg', [])) > 0 and rank != 'full': mag != grad
\* raises ValueError
CheckCombinedFactors(combined, mag, grad) ==
    IF combined /\ mag # grad THEN "ValueError" ELSE "no"

\* regularize(cov, info, mag, grad, eeg, exclude='bads', proj, rank):
\* [raised, writes, data, picks, regs], writes counting the blocks written
\* into the copy
RegularizeBlocks(g) ==
    LET exclude == g.info_bads \cup g.cov_bads
        meg_combined == IF g.rank.kind # "full" THEN g.coupled ELSE FALSE
        picks == PicksDict(g.types, exclude, meg_combined)
        combined == Len(picks["meg"]) > 0 /\ g.rank.kind # "full"
        regs == [k \in {"meg", "mag", "grad", "eeg"} |->
                    CASE k = "eeg" -> g.eeg
                      [] k = "grad" -> g.grad
                      [] OTHER -> g.mag]
        Touched(k) == Len(picks[k]) > 0 /\ regs[k] # Q(0)
        Block(k) == [i \in 1..Len(picks[k]) |-> [j \in 1..Len(picks[k]) |->
                        g.C[picks[k][i]][picks[k][j]]]]
        New(k) == CHOOSE m \in
                      {LoadBlock(this_C, Ut, regs[k]) :
                          this_C \in {Block(k)},
                          Ut \in {BlockBasis(Block(k), k, g.rank, g.proj,
                                             g.has_proj, picks[k], g.sign)}} :
                      TRUE
        keys == [i \in 1..Len(g.C) |-> KeyOf(picks, i)]
        Entry(news, i, j) ==
            IF keys[i] # "" /\ keys[i] = keys[j] /\ Touched(keys[i])
            THEN news[keys[i]][Index(picks[keys[i]], i)]
                              [Index(picks[keys[i]], j)]
            ELSE g.C[i][j]
    IN  IF CheckCombinedFactors(combined, g.mag, g.grad) # "no"
        THEN [raised |-> CheckCombinedFactors(combined, g.mag, g.grad),
              writes |-> 0, data |-> g.C,
              picks |-> picks, regs |-> regs]
        ELSE [raised |-> "no",
              writes |-> Cardinality({k \in DOMAIN picks : Touched(k)}),
              data |-> CHOOSE d \in
                  {[i \in 1..Len(g.C) |-> [j \in 1..Len(g.C) |->
                        Entry(news, i, j)]] :
                   news \in {[k \in DOMAIN picks |->
                                IF Touched(k) THEN New(k) ELSE <<>>]}} : TRUE,
              picks |-> picks, regs |-> regs]

\* the covariances regularize is given: a block of c1, c2 and a third
\* channel coupled to c1
RegBlocks ==
    {Recompose(lam, vec) :
        lam \in {<<Q(1), Q(1)>>, <<Q(1), Q(4)>>}, vec \in Rotations}

RegCovs ==
    {<< B[1] \o <<c>>, B[2] \o <<Q(0)>>, <<c, Q(0), Q(4)>> >> :
        B \in RegBlocks, c \in {Q(1)}}

RegLayouts == {<<"eeg", "eeg", "mag">>, <<"mag", "grad", "eeg">>}

RegRanks ==
    {[kind |-> "full"]}
    \cup {[kind |-> "dict", d |-> [k \in {"meg", "eeg"} |-> r]] : r \in 1..2}

RegInputs ==
    {g \in [C : RegCovs, types : RegLayouts, coupled : BOOLEAN,
            rank : RegRanks, proj : BOOLEAN, has_proj : BOOLEAN,
            sign : {1}, mag : RegFactors, grad : RegFactors,
            eeg : RegFactors, info_bads : {{}},
            cov_bads : {{}, {"c3"}}] :
        g.has_proj => (g.rank.kind = "full"
                           /\ g.types = <<"eeg", "eeg", "mag">>)}

InitReg ==
    /\ inp \in RegInputs
    /\ res = [stage |-> "start"]
    /\ covIdle
    /\ ccIdle

\* reg_cov = regularize(cov, info, ...), the sign of the singular vectors
\* being the library's
CallRegularize(sign) ==
    /\ res.stage = "start"
    /\ LET r == RegularizeBlocks([inp EXCEPT !.sign = sign])
       IN  res' = [stage |-> "called", raised |-> r.raised,
                   writes |-> r.writes, data |-> r.data, picks |-> r.picks,
                   regs |-> r.regs, arg |-> inp.C]
    /\ UNCHANGED <<inp, covVars, ccVars>>

NextReg == \E sign \in {1, -1} : CallRegularize(sign)

SpecReg == InitReg /\ [][NextReg]_vars

(***************************************************************************)
(* Properties of SpecReg.                                                  *)
(***************************************************************************)
Regularized == res.stage = "called" /\ res.raised = "no"

\* channel i is excluded
RegExcluded(i) == RegNames[i] \in inp.info_bads \cup inp.cov_bads

\* the factor of the block of channel i is 0
RegZeroFactor(i) ==
    KeyOf(res.picks, i) # "" /\ res.regs[KeyOf(res.picks, i)] = Q(0)

RegSameBlock(i, j) ==
    KeyOf(res.picks, i) # "" /\ KeyOf(res.picks, i) = KeyOf(res.picks, j)

RegKept(i, j) == res.data[i][j] = res.arg[i][j]

\* C21 (as stated): regularize changes only diagonal entries inside a
\* block with non-zero factor: every off-diagonal entry, every entry that
\* couples two blocks, every entry of an excluded channel and every entry
\* of a block with factor 0 is the input entry, for every rank and proj.
C21_OnlyBlockDiagonalChanges ==
    Regularized =>
        \A i, j \in 1..Len(res.arg) :
            (\/ i # j
             \/ ~RegSameBlock(i, j)
             \/ RegExcluded(i) \/ RegExcluded(j)
             \/ RegZeroFactor(i)) => RegKept(i, j)

\* C21 (amended): for every rank and proj, every entry that couples two
\* blocks, every entry of an excluded channel and every entry of a block
\* with factor 0 is the input entry; with rank 'full' and no projector
\* applied the off-diagonal entries inside a block are the input entries
\* too.
C21_OnlyBlocksChange ==
    Regularized =>
        \A i, j \in 1..Len(res.arg) :
            /\ (\/ ~RegSameBlock(i, j)
                \/ RegExcluded(i) \/ RegExcluded(j)
                \/ RegZeroFactor(i)) => RegKept(i, j)
            /\ (/\ i # j
                /\ inp.rank.kind = "full"
                /\ ~(inp.proj /\ inp.has_proj)) => RegKept(i, j)

\* a call with an excluded channel and a loaded block of two channels
C21_Witness ==
    /\ Regularized
    /\ RegExcluded(3)
    /\ RegSameBlock(1, 2)
    /\ ~RegKept(1, 1)
    /\ RegKept(1, 2)
    /\ RegKept(1, 3) /\ res.arg[1][3] # Q(0)

\* magnetometers and gradiometers are handled as one 'meg' block
MegCombined ==
    /\ res.stage = "called"
    /\ Len(res.picks["meg"]) > 0
    /\ inp.rank.kind # "full"

\* the block of the result, and of the argument, over the indices idx
RegBlockOf(M, idx) ==
    [i \in 1..Len(idx) |-> [j \in 1..Len(idx) |-> M[idx[i]][idx[j]]]]

\* C22: whenever magnetometers and gradiometers form one combined 'meg'
\* block (coupled MEG data and rank not 'full'), mag # grad raises
\* ValueError before any entry is changed, and mag = grad loads the
\* combined block once with that factor, no 'mag' or 'grad' block being
\* loaded on its own.
C22_CombinedMegOneFactor ==
    /\ (res.stage = "called" /\ inp.coupled /\ inp.rank.kind # "full"
            /\ \E i \in 1..Len(inp.types) :
                   /\ inp.types[i] \in {"mag", "grad"}
                   /\ RegNames[i] \notin inp.cov_bads)
           => MegCombined
    /\ MegCombined =>
        /\ inp.mag # inp.grad
               => /\ res.raised = "ValueError"
                  /\ res.writes = 0
                  /\ res.data = res.arg
        /\ inp.mag = inp.grad
               => /\ res.raised = "no"
                  /\ res.picks["mag"] = <<>> /\ res.picks["grad"] = <<>>
                  /\ res.regs["meg"] = inp.mag
                  /\ RegBlockOf(res.data, res.picks["meg"]) =
                         IF inp.mag = Q(0)
                         THEN RegBlockOf(res.arg, res.picks["meg"])
                         ELSE LoadBlock(
                                  RegBlockOf(res.arg, res.picks["meg"]),
                                  BlockBasis(
                                      RegBlockOf(res.arg, res.picks["meg"]),
                                      "meg", inp.rank, inp.proj,
                                      inp.has_proj, res.picks["meg"], 1),
                                  inp.mag)

\* a combined block of two channels loaded with the common factor
C22_Witness ==
    /\ MegCombined
    /\ res.picks["meg"] = <<1, 2>>
    /\ inp.mag = inp.grad /\ inp.mag # Q(0)
    /\ res.raised = "no"
    /\ ~RegKept(1, 1)

\* a combined block refused for its differing factors
CombinedMegRefused ==
    /\ MegCombined
    /\ inp.mag # inp.grad
    /\ res.raised = "ValueError"

(***************************************************************************)
(* More properties of SpecCov.                                             *)
(***************************************************************************)
\* C23: adding two Covariance objects (+ or +=) whose lists of SSP
\* projections differ raises ValueError and leaves both operands unchanged.
C23_DifferentProjsRefused ==
    (/\ last.op \in {"add", "iadd"}
     /\ last.self.projs # last.cov.projs)
    => /\ last.raised = "ValueError"
       /\ a = last.self
       /\ b = last.cov

\* what _check_covs_algebra does refuse: differing channel names
DifferentNamesRefused ==
    (/\ last.op \in {"add", "iadd"}
     /\ last.self.names # last.cov.names)
    => /\ last.raised = "ValueError"
       /\ a = last.self
       /\ b = last.cov

\* the 'diag' flag and 'dim' of c agree with its data and names
ShapeConsistent(c) ==
    /\ c.diag = (c.data.ndim = 1)
    /\ c.dim = Len(c.names)

\* C29: in every Covariance reachable by construction, as_diag, + and +=
\* (a diagonal and a full one mixed too) 'diag' is True exactly when data
\* is one-dimensional and 'dim' is the number of channel names; an
\* operation that cannot keep this fails without changing its operands.
C29_DiagFlagMatchesData ==
    /\ \A c \in LiveCovs : ShapeConsistent(c)
    /\ (last.op \in {"add", "iadd"} /\ last.raised # "no")
           => a = last.self /\ b = last.cov

\* the same for operands of one representation
SameShapeKeepsDiagFlag ==
    (/\ last.op \in {"add", "iadd"}
     /\ last.self.data.ndim = last.cov.data.ndim
     /\ ShapeConsistent(last.self) /\ ShapeConsistent(last.cov)
     /\ last.raised = "no")
    => ShapeConsistent(last.val)

\* C30: whiten_evoked leaves the noise covariance passed by the caller
\* unchanged for every value of diag: the caller's covariance keeps its
\* data, diag flag, eig and eigvec.
C30_WhitenEvokedLeavesCov ==
    last.op = "whiten_evoked" => a = last.self

\* the same without diag, or on a covariance that is diagonal already
WhitenEvokedNoDiagLeavesCov ==
    (last.op = "whiten_evoked" /\ (~last.diag \/ last.self.diag))
        => a = last.self

(***************************************************************************)
(* SpecShrunk: _ShrunkCovariance.fit on an empirical covariance of three   *)
(* channels, with a scalar shrinkage or a list of (ch_type, c, picks).     *)
(* Picks are 1-based.                                                      *)
(***************************************************************************)
\* a convex combination that lacks the scaled identity
ShrunkCovarianceNoTarget(emp_cov, shrinkage) ==
    [i \in 1..Len(emp_cov) |-> [j \in 1..Len(emp_cov) |->
        RMul(RAdd(Q(1), RMul(Q(-1), shrinkage)), emp_cov[i][j])]]

\* sklearn.covariance.shrunk_covariance(emp_cov, shrinkage):
\* (1 - shrinkage) * emp_cov + shrinkage * mu * I, mu = trace(emp_cov) / n
ShrunkCovarianceSk(emp_cov, shrinkage) ==
    LET n == Len(emp_cov)
        mu == RDiv(RSum([i \in 1..n |-> emp_cov[i][i]]), Q(n))
    IN  [i \in 1..n |-> [j \in 1..n |->
            RAdd(RMul(RAdd(Q(1), RMul(Q(-1), shrinkage)), emp_cov[i][j]),
                 IF i = j THEN RMul(shrinkage, mu) ELSE Q(0))]]

\* itt.combinations(range(n), 2) in its order
Combinations2(n) ==
    LET RECURSIVE From(_, _)
        From(i, j) ==
            IF i >= n THEN <<>>
            ELSE IF j > n THEN From(i + 1, i + 2)
            ELSE <<<<i, j>>>> \o From(i, j + 1)
    IN  From(1, 2)

\* a mask that marks the cross terms of every pair of blocks
ZeroCrossCovAllPairs(shrinkage, n) ==
    [i \in 1..n |-> [j \in 1..n |->
        \E p \in 1..Len(Combinations2(Len(shrinkage))) :
            LET x == shrinkage[Combinations2(Len(shrinkage))[p][1]]
                y == shrinkage[Combinations2(Len(shrinkage))[p][2]]
            IN  \/ Index(x.picks, i) > 0 /\ Index(y.picks, j) > 0
                \/ Index(y.picks, i) > 0 /\ Index(x.picks, j) > 0]]

\* zero_cross_cov: True at [picks_i, picks_j] and [picks_j, picks_i] for
\* every pair of blocks one of which is named 'eeg'
ZeroCrossCov(shrinkage, n) ==
    [i \in 1..n |-> [j \in 1..n |->
        \E p \in 1..Len(Combinations2(Len(shrinkage))) :
            LET x == shrinkage[Combinations2(Len(shrinkage))[p][1]]
                y == shrinkage[Combinations2(Len(shrinkage))[p][2]]
            IN  /\ "eeg" \in {x.ch_type, y.ch_type}
                /\ \/ Index(x.picks, i) > 0 /\ Index(y.picks, j) > 0
                   \/ Index(y.picks, i) > 0 /\ Index(x.picks, j) > 0]]

\* the loop "Apply shrinkage to blocks", from entry k on
RECURSIVE ShrinkBlocks(_, _, _)
ShrinkBlocks(cov, shrinkage, k) ==
    IF k > Len(shrinkage) THEN cov
    ELSE LET picks == shrinkage[k].picks
             sub_cov == [i \in 1..Len(picks) |-> [j \in 1..Len(picks) |->
                            cov[picks[i]][picks[j]]]]
             new == ShrunkCovarianceSk(sub_cov, shrinkage[k].c)
         IN  ShrinkBlocks(
                 [i \in 1..Len(cov) |-> [j \in 1..Len(cov) |->
                     IF Index(picks, i) > 0 /\ Index(picks, j) > 0
                     THEN new[Index(picks, i)][Index(picks, j)]
                     ELSE cov[i][j]]],
                 shrinkage, k + 1)

\* the loop "Apply shrinkage to cross-cov", from pair p on
RECURSIVE ShrinkCross(_, _, _)
ShrinkCross(cov, shrinkage, p) ==
    IF p > Len(Combinations2(Len(shrinkage))) THEN cov
    ELSE LET x == shrinkage[Combinations2(Len(shrinkage))[p][1]]
             y == shrinkage[Combinations2(Len(shrinkage))[p][2]]
             c_ij == RSqrt(RMul(RAdd(Q(1), RMul(Q(-1), x.c)),
                                RAdd(Q(1), RMul(Q(-1), y.c))))
             First(i, j) == Index(x.picks, i) > 0 /\ Index(y.picks, j) > 0
             Second(i, j) == Index(y.picks, i) > 0 /\ Index(x.picks, j) > 0
             once == [i \in 1..Len(cov) |-> [j \in 1..Len(cov) |->
                         IF First(i, j) THEN RMul(cov[i][j], c_ij)
                         ELSE cov[i][j]]]
             twice == [i \in 1..Len(cov) |-> [j \in 1..Len(cov) |->
                          IF Second(i, j) THEN RMul(once[i][j], c_ij)
                          ELSE once[i][j]]]
         IN  ShrinkCross(twice, shrinkage, p + 1)

\* _ShrunkCovariance(shrinkage=sh).fit(X), cov being the empirical
\* covariance of X: [covariance_, zero_cross_cov_]
ShrunkFit(cov, sh) ==
    LET n == Len(cov)
        shrinkage == IF sh.kind = "list" THEN sh.blocks
                     ELSE <<[ch_type |-> "all", c |-> sh.c,
                             picks |-> [i \in 1..n |-> i]]>>
        zero_cross_cov == ZeroCrossCov(shrinkage, n)
        blocks == ShrinkBlocks(cov, shrinkage, 1)
        cross == ShrinkCross(blocks, shrinkage, 1)
    IN  [covariance_ |-> [i \in 1..n |-> [j \in 1..n |->
                            IF zero_cross_cov[i][j] THEN Q(0)
                            ELSE cross[i][j]]],
         zero_cross_cov_ |-> zero_cross_cov]

\* empirical covariances of three channels with unequal variances
EmpiricalCovs ==
    {<< <<Q(v1), Q(1), Q(x)>>, <<Q(1), Q(v2), Q(1)>>, <<Q(x), Q(1), Q(4)>> >> :
        v1 \in {2, 4}, v2 \in {2, 4}, x \in {-1, 1}}

\* shrinkage factors whose complements have exact square roots
ShrinkageValues == {Q(0), <<3, 4>>, Q(1)}

\* the per-channel-type lists compute_covariance builds from picks_list
ShrinkageLayouts ==
    {<< <<"mag", <<1>>>>, <<"grad", <<2>>>>, <<"eeg", <<3>>>> >>,
     << <<"mag", <<1, 2>>>>, <<"eeg", <<3>>>> >>,
     << <<"eeg", <<1, 3>>>>, <<"grad", <<2>>>> >>,
     << <<"mag", <<1>>>>, <<"grad", <<2, 3>>>> >>,
     << <<"seeg", <<1>>>>, <<"mag", <<2>>>>, <<"eeg", <<3>>>> >>}

ShrinkageInputs ==
    {[kind |-> "scalar", c |-> c] : c \in ShrinkageValues}
    \cup {[kind |-> "list",
           blocks |-> [k \in 1..Len(lay) |->
                         [ch_type |-> lay[k][1], c |-> cs[k],
                          picks |-> lay[k][2]]]] :
            lay \in ShrinkageLayouts, cs \in [1..3 -> ShrinkageValues]}

InitShrunk ==
    /\ inp \in [cov : EmpiricalCovs, shrinkage : ShrinkageInputs]
    /\ res = [stage |-> "new"]
    /\ covIdle
    /\ ccIdle

\* est.fit(X)
CallShrunkFit ==
    /\ res.stage = "new"
    /\ LET r == ShrunkFit(inp.cov, inp.shrinkage)
       IN  res' = [stage |-> "fitted", covariance_ |-> r.covariance_,
                   zero_cross_cov_ |-> r.zero_cross_cov_]
    /\ UNCHANGED <<inp, covVars, ccVars>>

NextShrunk == CallShrunkFit

SpecShrunk == InitShrunk /\ [][NextShrunk]_vars

(***************************************************************************)
(* Properties of SpecShrunk.                                               *)
(***************************************************************************)
ScalarFitted == res.stage = "fitted" /\ inp.shrinkage.kind = "scalar"

ListFitted == res.stage = "fitted" /\ inp.shrinkage.kind = "list"

OffDiagonalZero ==
    \A i, j \in 1..Len(inp.cov) : i # j => res.covariance_[i][j] = Q(0)

\* C24 (as stated): with a scalar factor s, s = 0 gives the empirical
\* covariance; s = 1 gives zero off-diagonal entries and on the diagonal
\* each channel's own empirical variance.
C24_ShrinkageBounds ==
    ScalarFitted =>
        /\ inp.shrinkage.c = Q(0) => res.covariance_ = inp.cov
        /\ inp.shrinkage.c = Q(1)
               => /\ OffDiagonalZero
                  /\ \A i \in 1..Len(inp.cov) :
                         res.covariance_[i][i] = inp.cov[i][i]

\* C24 (amended): with a scalar factor s, s = 0 gives the empirical
\* covariance; s = 1 gives zero off-diagonal entries and on the diagonal
\* the mean of the empirical variances of all channels, the same for
\* every channel.
C24_ShrinkageBoundsMeanVariance ==
    ScalarFitted =>
        /\ inp.shrinkage.c = Q(0) => res.covariance_ = inp.cov
        /\ inp.shrinkage.c = Q(1)
               => /\ OffDiagonalZero
                  /\ \A i \in 1..Len(inp.cov) :
                         res.covariance_[i][i] =
                             RDiv(RSum([k \in 1..Len(inp.cov) |->
                                           inp.cov[k][k]]),
                                  Q(Len(inp.cov)))

\* a fit with s = 1 on channels of unequal variances
C24_Witness ==
    /\ ScalarFitted
    /\ inp.shrinkage.c = Q(1)
    /\ inp.cov[1][1] # inp.cov[3][3]
    /\ res.covariance_[1][1] = res.covariance_[3][3]

\* the position in the shrinkage list of the block that holds channel i
BlockIndexOf(i) ==
    CHOOSE k \in 1..Len(inp.shrinkage.blocks) :
        Index(inp.shrinkage.blocks[k].picks, i) > 0

EegCross(i, j) ==
    /\ BlockIndexOf(i) # BlockIndexOf(j)
    /\ "eeg" \in {inp.shrinkage.blocks[BlockIndexOf(i)].ch_type,
                  inp.shrinkage.blocks[BlockIndexOf(j)].ch_type}

NaN == <<0, 0>>

Inf == <<1, 0>>

\* np.arange(start, stop, step) for a positive step
RECURSIVE Arange(_, _, _)
Arange(start, stop, step) ==
    IF start >= stop THEN <<>>
    ELSE <<start>> \o Arange(start + step, stop, step)

\* x < y on scores as numpy compares floats: False if either is nan
ScoreLess(x, y) ==
    /\ ~RIsNan(x) /\ ~RIsNan(y)
    /\ x # y
    /\ \/ RIsInf(y)
       \/ ~RIsInf(x) /\ x[1] * y[2] < y[1] * x[2]

\* ii >= 3 and np.all(np.diff(scores[ii - 3:ii]) < 0) and stop_early, for
\* the candidate k = ii + 1
EarlyStop(scores, k, stop_early) ==
    /\ k >= 4
    /\ ScoreLess(scores[k - 2], scores[k - 3])
    /\ ScoreLess(scores[k - 1], scores[k - 2])
    /\ stop_early

\* np.nanargmax(scores): the first position of the largest score that is
\* not nan
NanArgMax(scores) ==
    CHOOSE i \in 1..Len(scores) :
        /\ ~RIsNan(scores[i])
        /\ \A j \in 1..Len(scores) :
               /\ ~ScoreLess(scores[i], scores[j])
               /\ (j < i => RIsNan(scores[j]) \/ ScoreLess(scores[j], scores[i]))

\* what _cross_val gives for a candidate: a negative log-likelihood, nan,
\* or inf (which a ValueError of the fit is turned into)
CrossValScores == {Q(-1), Q(-2), Q(-3), NaN, Inf}

LowRankInputs ==
    UNION {{[iter_n_components |-> [i \in 1..n |-> i], given |-> TRUE,
             n_features |-> MaxGrid, cv |-> cv, stop_early |-> se] :
               se \in BOOLEAN, cv \in [1..n -> CrossValScores]} :
           n \in 1..MaxGrid}
    \cup UNION {{[iter_n_components |-> <<>>, given |-> FALSE,
                  n_features |-> nf, cv |-> cv, stop_early |-> TRUE] :
                    cv \in [1..Len(Arange(5, nf, 5)) -> CrossValScores]} :
                nf \in {4, 5, 6, 11}}

InitLowRank ==
    /\ inp \in LowRankInputs
    /\ res = [stage |-> "start"]
    /\ covIdle
    /\ ccIdle

\* from the entry of the function to the loop: the grid, scores filled
\* with nan, max_n
SetUpGrid ==
    /\ res.stage = "start"
    /\ LET grid == IF inp.given THEN inp.iter_n_components
                   ELSE Arange(5, inp.n_features, 5)
       IN  res' = IF grid = <<>>
                  THEN [stage |-> "raised", raised |-> "ValueError",
                        grid |-> grid, scores |-> <<>>, evaluated |-> {},
                        ii |-> 0, best |-> 0]
                  ELSE [stage |-> "loop", raised |-> "no", grid |-> grid,
                        scores |-> [i \in 1..Len(grid) |-> NaN],
                        evaluated |-> {}, ii |-> 1, best |-> 0]
    /\ UNCHANGED <<inp, covVars, ccVars>>

\* one pass of the loop over the candidates
ScoreCandidate ==
    /\ res.stage = "loop"
    /\ LET k == res.ii
           score == inp.cv[k]
           scores == [res.scores EXCEPT ![k] = score]
       IN  res' =
             IF RIsInf(score) \/ (~RIsNan(score) /\ score[1] > 0)
             THEN [res EXCEPT !.stage = "select",
                              !.evaluated = @ \cup {k}]
             ELSE IF EarlyStop(scores, k, inp.stop_early)
                     \/ k = Len(res.grid)
             THEN [res EXCEPT !.stage = "select", !.scores = scores,
                              !.evaluated = @ \cup {k}]
             ELSE [res EXCEPT !.scores = scores, !.ii = k + 1,
                              !.evaluated = @ \cup {k}]
    /\ UNCHANGED <<inp, covVars, ccVars>>

\* after the loop: RuntimeError if all scores are nan, else the best
SelectBest ==
    /\ res.stage = "select"
    /\ res' = IF \A i \in 1..Len(res.scores) : RIsNan(res.scores[i])
              THEN [res EXCEPT !.stage = "raised",
                               !.raised = "RuntimeError"]
              ELSE [res EXCEPT !.stage = "returned",
                               !.best = NanArgMax(res.scores)]
    /\ UNCHANGED <<inp, covVars, ccVars>>

NextLowRank ==
    \/ SetUpGrid
    \/ ScoreCandidate
    \/ SelectBest

SpecLowRank == InitLowRank /\ [][NextLowRank]_vars

(***************************************************************************)
(* Properties of SpecLowRank.                                              *)
(***************************************************************************)
\* the candidates i - 2, i - 1, i were scored, with falling scores
FallingAt(i) ==
    /\ i >= 3
    /\ {i - 2, i - 1, i} \subseteq res.evaluated
    /\ ScoreLess(res.scores[i - 1], res.scores[i - 2])
    /\ ScoreLess(res.scores[i], res.scores[i - 1])

\* C25: with stop_early, as soon as three consecutive candidates i-2, i-1,
\* i have strictly decreasing scores the search stops: no candidate after
\* i is evaluated.
C25_StopsAtThirdDecrease ==
    (res.stage # "start" /\ inp.stop_early) =>
        \A i \in 1..Len(res.grid) :
            FallingAt(i) => \A j \in res.evaluated : j <= i

\* what the loop does: it looks at the three candidates before the one
\* just scored, so one more candidate is evaluated
StopsOneCandidateLater ==
    (res.stage # "start" /\ inp.stop_early) =>
        \A i \in 1..Len(res.grid) :
            FallingAt(i) => \A j \in res.evaluated : j <= i + 1

LowRankDone == res.stage \in {"raised", "returned"}

FiniteScore(x) == ~RIsNan(x) /\ ~RIsInf(x)

TwoOutcomes ==
    /\ res.raised \in {"no", "RuntimeError"}
    /\ res.raised = "RuntimeError"
           <=> ~\E i \in res.evaluated : FiniteScore(res.scores[i])
    /\ res.raised = "no"
           => /\ res.best \in res.evaluated
              /\ FiniteScore(res.scores[res.best])
              /\ \A i \in 1..Len(res.scores) :
                     ~ScoreLess(res.scores[res.best], res.scores[i])

\* C26: for every input, the default grid on data with 5 or fewer
\* channels too, _auto_low_rank_model either raises RuntimeError (exactly
\* when no evaluated candidate has a finite recorded score) or returns as
\* best the evaluated candidate with the largest recorded score.
C26_RaisesOrReturnsBest == LowRankDone => TwoOutcomes

\* the same for a grid that is not empty
NonEmptyGridTwoOutcomes ==
    (LowRankDone /\ res.grid # <<>>) => TwoOutcomes

(***************************************************************************)
(* SpecReduce: the rank reduction of _compute_covariance_auto and the      *)
(* per-type picks it hands to the estimators.  Indices are 1-based.        *)
(***************************************************************************)
\* _picks_by_type(info): one (ch_type, picks) per channel type present, in
\* the order mag, grad, eeg
PicksByType(types) ==
    LET Of(t) == IF SelectIdx(types, {t}, 1) = <<>> THEN <<>>
                 ELSE <<[key |-> t, picks |-> SelectIdx(types, {t}, 1)]>>
    IN  Of("mag") \o Of("grad") \o Of("eeg")

\* the mask of _smart_eigh(C, info, rank, proj_subspace=True): per block of
\* _picks_by_type(info, meg_combined=True), mask[picks] is the mask of
\* _get_ch_whitener for the rank of the block
SmartEighMask(types, rk) ==
    LET shown == [i \in 1..Len(types) |-> MegName(types[i])]
        Picks(t) == SelectIdx(shown, {t}, 1)
        Kept(t) == GetChWhitener([i \in 1..Len(Picks(t)) |-> i], FALSE,
                                 rk[t]).mask
    IN  [i \in 1..Len(types) |-> Kept(shown[i])[Index(Picks(shown[i]), i)]]

\* np.searchsorted(used, picks): for each pick the number of elements of
\* the ascending used that are smaller, as a 1-based position
SearchSorted(used, picks) ==
    [k \in 1..Len(picks) |->
        Cardinality({u \in 1..Len(used) : used[u] < picks[k]}) + 1]

ReduceLayouts == [1..MaxChan -> {"mag", "grad", "eeg"}]

InitReduce ==
    /\ inp \in [types : ReduceLayouts,
                rank : [{"meg", "eeg"} -> 1..MaxChan]]
    /\ res = [stage |-> "scaled"]
    /\ covIdle
    /\ ccIdle

\* the branch rank != 'full': mask, used, sub_picks_list
ReduceRank ==
    /\ res.stage = "scaled"
    /\ LET mask == SmartEighMask(inp.types, inp.rank)
           used == SelectIdx(mask, {TRUE}, 1)
           picks_list == PicksByType(inp.types)
       IN  res' = [stage |-> "reduced", mask |-> mask, used |-> used,
                   n_reduced |-> Len(used), picks_list |-> picks_list,
                   sub_picks_list |->
                       [k \in 1..Len(picks_list) |->
                           [key |-> picks_list[k].key,
                            picks |-> SearchSorted(used,
                                                   picks_list[k].picks)]],
                   raised |-> "no"]
    /\ UNCHANGED <<inp, covVars, ccVars>>

\* for ch_type, picks in sub_picks_list: lw.fit(data_[:, picks])
FitPerType ==
    /\ res.stage = "reduced"
    /\ res' = IF \E k \in 1..Len(res.sub_picks_list) :
                     \E p \in 1..Len(res.sub_picks_list[k].picks) :
                         res.sub_picks_list[k].picks[p] > res.n_reduced
              THEN [res EXCEPT !.stage = "raised", !.raised = "IndexError"]
              ELSE [res EXCEPT !.stage = "fitted"]
    /\ UNCHANGED <<inp, covVars, ccVars>>

NextReduce ==
    \/ ReduceRank
    \/ FitPerType

SpecReduce == InitReduce /\ [][NextReduce]_vars

(***************************************************************************)
(* Properties of SpecReduce.                                               *)
(***************************************************************************)
\* the number of coordinates the reduction keeps for the channels picks
RetainedIn(picks) ==
    Cardinality({p \in 1..Len(picks) : res.mask[picks[p]]})

SubPicks(k) == res.sub_picks_list[k].picks

SubPicksPartition ==
    /\ \A k \in 1..Len(res.sub_picks_list) :
           /\ \A p, q \in 1..Len(SubPicks(k)) :
                  p # q => SubPicks(k)[p] # SubPicks(k)[q]
           /\ \A p \in 1..Len(SubPicks(k)) :
                  SubPicks(k)[p] \in 1..res.n_reduced
           /\ Len(SubPicks(k)) = RetainedIn(res.picks_list[k].picks)
    /\ \A k, l \in 1..Len(res.sub_picks_list) :
           k # l => Elems(SubPicks(k)) \cap Elems(SubPicks(l)) = {}
    /\ UNION {Elems(SubPicks(k)) : k \in 1..Len(res.sub_picks_list)}
           = 1..res.n_reduced

\* C28: after the non-full-rank reduction the blocks of sub_picks_list are
\* duplicate-free, pairwise disjoint, hold only valid indices of the
\* reduced data, together cover every reduced coordinate, and each has as
\* many indices as its type's retained rank, for every channel ordering.
C28_SubPicksPartition == res.stage # "scaled" => SubPicksPartition

\* the same when the reduction drops nothing
FullMaskPartition ==
    (/\ res.stage # "scaled"
     /\ \A i \in 1..Len(res.mask) : res.mask[i])
        => SubPicksPartition /\ res.raised = "no"

====
